---- MODULE Spec2Model ----
(***************************************************************************)
(* A model of the Doenet math-parser: the stack-based expression parser    *)
(* (Parser.convert, Stack.push and the token classes' follows /            *)
(* followedBy / append / group / tree handlers), the AST's toString and    *)
(* its JSON round trip.                                                    *)
(*                                                                         *)
(* Strings are sequences of one-character strings, so that the tokenizer   *)
(* and toString work on characters.  Precedences are the source's values   *)
(* times 100 (.25 -> 25, 3.5 -> 350, 1000 -> 100000), Infinity is -1.      *)
(***************************************************************************)
EXTENDS Integers, Sequences, FiniteSets

\* ------------------------------------------------------------------------
\* Strings
\* ------------------------------------------------------------------------

\* JavaScript's null / undefined where a string is expected: no real string,
\* since every element of a real string is one character.
NULL == <<"<null>">>

Digits == <<"0", "1", "2", "3", "4", "5", "6", "7", "8", "9">>

Letters == {"a", "b", "c", "d", "e", "f", "g", "h", "i", "j", "k", "l", "m",
            "n", "o", "p", "q", "r", "s", "t", "u", "v", "w", "x", "y", "z",
            "A", "B", "C", "D", "E", "F", "G", "H", "I", "J", "K", "L", "M",
            "N", "O", "P", "Q", "R", "S", "T", "U", "V", "W", "X", "Y", "Z"}

IsDigit(c) == \E k \in 1..10 : Digits[k] = c

DigitValue(c) == (CHOOSE k \in 1..10 : Digits[k] = c) - 1

RECURSIVE Flatten(_)
\* the concatenation of a sequence of strings
Flatten(ss) == IF ss = <<>> THEN <<>> ELSE Head(ss) \o Flatten(Tail(ss))

RECURSIVE Join(_, _)
\* Array.prototype.join
Join(ss, sep) ==
  IF ss = <<>> THEN <<>>
  ELSE IF Len(ss) = 1 THEN ss[1]
  ELSE ss[1] \o sep \o Join(Tail(ss), sep)

RECURSIVE NatToString(_)
NatToString(n) ==
  IF n < 10 THEN <<Digits[n + 1]>>
  ELSE NatToString(n \div 10) \o <<Digits[(n % 10) + 1]>>

\* String(number), for the integers the tokenizer can produce
NumberToString(n) == IF n < 0 THEN <<"-">> \o NatToString(-n) ELSE NatToString(n)

RECURSIVE ParseDigits(_, _)
ParseDigits(s, acc) ==
  IF s = <<>> THEN acc ELSE ParseDigits(Tail(s), 10 * acc + DigitValue(Head(s)))

\* parseFloat of a string of digits
ParseFloat(s) == ParseDigits(s, 0)

IsPrefixAt(name, str, i) ==
  /\ i + Len(name) - 1 <= Len(str)
  /\ \A k \in 1..Len(name) : str[i + k - 1] = name[k]

\* ------------------------------------------------------------------------
\* AST nodes
\* ------------------------------------------------------------------------

LeafKinds == {"Name", "Num", "FuncName"}
OpKinds == {"Op", "Bop", "Uop", "Rel", "MultiRel"}
GroupKinds == {"StackGroup", "Group", "Vector", "Set"}

\* The prototype of an AST class: the defaults its instances inherit
\* (Op.defaults, Uop.defaults, MultiRel.defaults, FuncName.defaults,
\* FuncApply.defaults, FuncExp.defaults).  `own' holds the names of the
\* instance's own properties: what toJSON copies, and what `in' also sees.
AstProto(kind) ==
  [kind |-> kind, value |-> <<>>, isNum |-> FALSE, num |-> 0,
   childNodes |-> <<>>,
   precedence |-> IF kind = "FuncExp" THEN 350 ELSE 0,
   associativity |-> "left",
   opString |-> NULL,
   equalParens |-> (kind = "Uop"),
   isComma |-> FALSE,
   open |-> NULL, close |-> NULL,
   relations |-> <<>>, opStrings |-> <<>>,
   inverse |-> <<>>,
   autoApply |-> FALSE,
   exp |-> <<>>,
   own |-> {}]

\* new AstObject(value) / new AstNode(value, children) / new StackGroup(open)
\* / new Num(value): what createAst(type, value) builds
NewAst(kind, value) ==
  IF kind = "Num"
  THEN LET n == ParseFloat(value) IN
       \* this.value = parseFloat(value) || ''
       IF n = 0 THEN [AstProto(kind) EXCEPT !.own = {"value"}]
       ELSE [AstProto(kind) EXCEPT !.isNum = TRUE, !.num = n, !.own = {"value"}]
  ELSE IF kind \in GroupKinds
  THEN [AstProto(kind) EXCEPT !.open = value, !.own = {"value", "childNodes", "open", "close"}]
  ELSE IF kind \in LeafKinds
  THEN [AstProto(kind) EXCEPT !.value = value, !.own = {"value"}]
  ELSE [AstProto(kind) EXCEPT !.value = value, !.own = {"value", "childNodes"}]

\* 'precedence' in node
HasPrecedence(node) ==
  node.kind \in OpKinds \/ node.kind = "FuncExp" \/ "precedence" \in node.own

\* an addParens that never wraps
AddParensNever(node, text, precedence, equalParens) == text

\* AstObject.addParens, applied to the child's text
AddParensText(node, text, precedence, equalParens) ==
  IF ~HasPrecedence(node) THEN text
  ELSE IF node.precedence < precedence \/ (equalParens /\ node.precedence = precedence)
       THEN <<"(">> \o text \o <<")">>
       ELSE text

\* Bop.operatorString
BopOperatorString(node) ==
  IF node.opString # NULL THEN node.opString ELSE <<" ">> \o node.value \o <<" ">>

\* Op.operatorString
OpOperatorString(node) ==
  IF node.opString # NULL /\ node.opString # <<>> THEN node.opString ELSE node.value

\* MultiRel.getOp
GetOp(node, name) ==
  IF name \in DOMAIN node.opStrings THEN node.opStrings[name] ELSE name

\* the text of an open or close string that may be undefined
Undef(s) == IF s = NULL THEN <<"u", "n", "d", "e", "f", "i", "n", "e", "d">> ELSE s

RECURSIVE ToString(_)
RECURSIVE MultiRelItems(_, _, _)

\* MultiRel.toString's items, from child i on
MultiRelItems(node, texts, i) ==
  IF i > Len(texts) THEN <<>>
  ELSE <<GetOp(node, node.relations[i - 1]), texts[i]>> \o MultiRelItems(node, texts, i + 1)

\* toString of every AST class
ToString(node) ==
  LET texts == [i \in 1..Len(node.childNodes) |-> ToString(node.childNodes[i])]
      parens == [i \in 1..Len(node.childNodes) |->
                   AddParensText(node.childNodes[i], texts[i],
                                 node.precedence, node.equalParens)]
  IN CASE node.kind \in LeafKinds ->
            IF node.isNum THEN NumberToString(node.num) ELSE node.value
       [] node.kind = "MultiRel" ->
            Join(<<texts[1]>> \o MultiRelItems(node, texts, 2), <<" ">>)
       [] node.kind \in {"Bop", "Rel"} ->
            Join(parens, BopOperatorString(node))
       [] node.kind = "Uop" ->
            LET op == OpOperatorString(node)
                arg == IF Len(parens) >= 1 THEN parens[1] ELSE <<>>
            IN IF node.associativity = "left" THEN op \o arg ELSE arg \o op
       [] node.kind \in GroupKinds ->
            Undef(node.open) \o Join(texts, <<",", " ">>) \o Undef(node.close)
       [] node.kind = "FuncApply" ->
            node.value \o <<"(">> \o Join(texts, <<",", " ">>) \o <<")">>
       [] node.kind = "FuncExp" ->
            LET e == node.exp[1] IN
            AddParensText(e, ToString(e), node.precedence, FALSE)
              \o <<"(">> \o Join(texts, <<",", " ">>) \o <<")">>
       [] OTHER ->
            LET children == Join(texts, <<",">>) IN
            IF node.value # <<>>
            THEN node.value \o (IF children # <<>>
                                THEN <<"(">> \o children \o <<")">> ELSE <<>>)
            ELSE children

\* ------------------------------------------------------------------------
\* Token classes
\* ------------------------------------------------------------------------

\* Characters outside ASCII, each one character of the input
MinusSign == "U+2212"
LessEqual == "U+2264"
GreaterEqual == "U+2265"
NotEqualSign == "U+2260"
ElementOf == "U+2208"

\* Token.define('token', ...): the prototype every token class starts from.
\* isa: the named base classes the class is an instance of; isClose "undef"
\* stands for a class that assigns no isClose.
TokenProto ==
  [isa |-> {"Token"}, kind |-> <<"t", "o", "k", "e", "n">>,
   token |-> <<>>, pattern |-> "", priority |-> 10,
   canApply |-> TRUE, astClass |-> "base", GroupAstClass |-> "",
   normalize |-> <<>>, normalizeTo |-> NULL,
   associativity |-> "left", precedence |-> 0, combine |-> FALSE,
   appliesLeft |-> FALSE, type |-> "", isComma |-> FALSE, unaryClass |-> "",
   equalParens |-> FALSE, opString |-> NULL, opStrings |-> <<>>,
   combined |-> <<>>, negateNumbers |-> FALSE,
   allowEmpty |-> FALSE, close |-> <<>>, removable |-> FALSE,
   removePrecedence |-> -100, isApply |-> FALSE, isClose |-> "undef",
   args |-> 0, autoApply |-> FALSE, requireArgument |-> FALSE,
   isInvertible |-> FALSE,
   lookClose |-> <<>>, operatorClass |-> "", delimiterClass |-> ""]

\* Token.define('operand', {canApply: false, astClass: 'Name'}, Operand)
OperandProto ==
  [TokenProto EXCEPT !.isa = @ \cup {"Operand"},
                     !.kind = <<"o", "p", "e", "r", "a", "n", "d">>,
                     !.canApply = FALSE, !.astClass = "Name"]

\* Token.define('operator', {...}, Operator)
OperatorProto ==
  [TokenProto EXCEPT !.isa = @ \cup {"Operator"},
                     !.kind = <<"o", "p", "e", "r", "a", "t", "o", "r">>,
                     !.associativity = "left", !.precedence = 500,
                     !.type = "binary"]

\* Operator.define('binary', {type: 'binary', astClass: 'Bop'}, BinaryOp)
BinaryOpProto ==
  [OperatorProto EXCEPT !.isa = @ \cup {"BinaryOp"},
                        !.kind = <<"b", "i", "n", "a", "r", "y">>,
                        !.type = "binary", !.astClass = "Bop"]

\* Operator.define('unary', {type: 'unary', astClass: 'Uop', equalParens: true}, UnaryOp)
UnaryOpProto ==
  [OperatorProto EXCEPT !.isa = @ \cup {"UnaryOp"},
                        !.kind = <<"u", "n", "a", "r", "y">>,
                        !.type = "unary", !.astClass = "Uop", !.equalParens = TRUE]

\* BinaryOp.define('relation', {...}, Relation)
RelationProto ==
  [BinaryOpProto EXCEPT !.isa = @ \cup {"Relation"},
                        !.kind = <<"r", "e", "l", "a", "t", "i", "o", "n">>,
                        !.precedence = 75, !.combine = TRUE, !.astClass = "Rel"]

\* Token.define('delimiter', {...}, Delimiter)
DelimiterProto ==
  [TokenProto EXCEPT !.isa = @ \cup {"Delimiter"},
                     !.kind = <<"d", "e", "l", "i", "m", "i", "t", "e", "r">>,
                     !.astClass = "Group"]

\* Token.define('look-ahead', {...}, LookAhead)
LookAheadProto ==
  [TokenProto EXCEPT !.isa = @ \cup {"LookAhead"},
                     !.kind = <<"l", "o", "o", "k", "-", "a", "h", "e", "a", "d">>]

\* Operand.define('function', {...}, Apply); canApply is set by the class field
ApplyProto ==
  [OperandProto EXCEPT !.isa = @ \cup {"Apply"},
                       !.kind = <<"f", "u", "n", "c", "t", "i", "o", "n">>,
                       !.canApply = TRUE, !.astClass = "FuncName",
                       !.args = 1, !.autoApply = FALSE, !.requireArgument = TRUE]

\* Operator.define('apply', {precedence: 3.5, ...}, ApplyOp)
ApplyOpProto ==
  [OperatorProto EXCEPT !.isa = @ \cup {"ApplyOp"},
                        !.kind = <<"a", "p", "p", "l", "y">>,
                        !.precedence = 350, !.associativity = "right",
                        !.astClass = "FuncApply"]

\* Operand.define('tree', {canApply: true}, Tree)
TreeProto ==
  [OperandProto EXCEPT !.isa = @ \cup {"Tree"}, !.kind = <<"t", "r", "e", "e">>,
                       !.canApply = TRUE]

TrigNames == << <<"s", "i", "n">>, <<"c", "o", "s">>, <<"t", "a", "n">>,
                <<"s", "e", "c">>, <<"c", "s", "c">>, <<"c", "o", "t">> >>

\* The token classes: the base classes of token/BaseTokens, and the classes
\* the catalogs (Standard, Inequalities, Sets) define from them.
ClassOf(cls) ==
  CASE cls = "Operand" -> OperandProto
    [] cls = "Operator" -> OperatorProto
    [] cls = "BinaryOp" -> BinaryOpProto
    [] cls = "UnaryOp" -> UnaryOpProto
    [] cls = "Relation" -> RelationProto
    [] cls = "Delimiter" -> DelimiterProto
    [] cls = "LookAhead" -> LookAheadProto
    [] cls = "Apply" -> ApplyProto
    [] cls = "ApplyOp" -> ApplyOpProto
    [] cls = "Tree" -> TreeProto
    [] cls = "ApplyArgument" ->
         [ApplyOpProto EXCEPT !.isa = @ \cup {"ApplyArgument"}, !.precedence = 100000]
    [] cls = "ApplyPending" ->
         [OperatorProto EXCEPT !.isa = @ \cup {"ApplyPending"},
                               !.kind = <<"a", "p", "p", "l", "y", "-", "p", "e", "n", "d", "i", "n", "g">>,
                               !.precedence = 350, !.associativity = "right"]
    [] cls = "Group" ->
         [TreeProto EXCEPT !.isa = @ \cup {"Group"}, !.kind = <<"g", "r", "o", "u", "p">>]
    [] cls = "Juxtapose" ->
         [BinaryOpProto EXCEPT !.isa = @ \cup {"Juxtapose"}, !.kind = <<"*">>,
                               !.precedence = 200, !.combine = TRUE, !.opString = <<" ">>]
    [] cls = "Start" ->
         [DelimiterProto EXCEPT !.isa = @ \cup {"StackDelimiter", "Start"},
                                !.kind = <<"_", "s", "t", "a", "r", "t", "_">>,
                                !.close = << <<"_", "e", "n", "d", "_">> >>,
                                !.allowEmpty = TRUE, !.astClass = "StackGroup"]
    [] cls = "End" ->
         [DelimiterProto EXCEPT !.isa = @ \cup {"StackDelimiter", "End"},
                                !.kind = <<"_", "e", "n", "d", "_">>,
                                !.isClose = "true", !.astClass = "StackGroup"]
    [] cls = "List" ->
         [BinaryOpProto EXCEPT !.kind = <<"l", "i", "s", "t">>, !.token = << <<",">> >>,
                               !.precedence = 25, !.combine = TRUE, !.isComma = TRUE,
                               !.opString = <<",", " ">>]
    [] cls = "Plus" ->
         [BinaryOpProto EXCEPT !.kind = <<"p", "l", "u", "s">>, !.token = << <<"+">> >>,
                               !.precedence = 100, !.combine = TRUE, !.type = "both",
                               !.unaryClass = "uplus"]
    [] cls = "uplus" ->
         [UnaryOpProto EXCEPT !.kind = <<"u", "p", "l", "u", "s">>, !.precedence = 300]
    [] cls = "UnaryMinus" ->
         [UnaryOpProto EXCEPT !.isa = @ \cup {"UnaryMinus"},
                              !.kind = <<"u", "m", "i", "n", "u", "s">>,
                              !.precedence = 300, !.negateNumbers = TRUE]
    [] cls = "Minus" ->
         [BinaryOpProto EXCEPT !.kind = <<"p", "l", "u", "s">>,
                               !.token = << <<"-">>, <<MinusSign>> >>,
                               !.precedence = 100, !.type = "both",
                               !.normalizeTo = <<"-">>, !.unaryClass = "UnaryMinus"]
    [] cls = "Multiply" ->
         [BinaryOpProto EXCEPT !.kind = <<"m", "u", "l", "t", "i", "p", "l", "y">>,
                               !.token = << <<"*">> >>, !.precedence = 200, !.combine = TRUE]
    [] cls = "Divide" ->
         [BinaryOpProto EXCEPT !.kind = <<"d", "i", "v", "i", "d", "e">>,
                               !.token = << <<"/">> >>, !.precedence = 200,
                               !.equalParens = TRUE]
    [] cls = "Power" ->
         [BinaryOpProto EXCEPT !.isa = @ \cup {"Power"},
                               !.kind = <<"p", "o", "w", "e", "r">>,
                               !.token = << <<"^">> >>, !.precedence = 400,
                               !.associativity = "right", !.appliesLeft = TRUE,
                               !.opString = <<"^">>]
    [] cls = "Factorial" ->
         [UnaryOpProto EXCEPT !.kind = <<"f", "a", "c", "t", "o", "r", "i", "a", "l">>,
                              !.token = << <<"!">> >>, !.precedence = 500,
                              !.associativity = "right"]
    [] cls = "Prime" ->
         [UnaryOpProto EXCEPT !.kind = <<"p", "r", "i", "m", "e">>,
                              !.token = << <<"'">> >>, !.precedence = 600,
                              !.associativity = "right", !.appliesLeft = TRUE]
    [] cls = "Parens" ->
         [DelimiterProto EXCEPT !.kind = <<"p", "a", "r", "e", "n", "s">>,
                                !.token = << <<"(">>, <<")">> >>, !.close = << <<")">> >>,
                                !.removable = TRUE, !.removePrecedence = 99,
                                !.isApply = TRUE]
    [] cls = "Bar" ->
         [LookAheadProto EXCEPT !.kind = <<"|">>, !.token = << <<"|">> >>,
                                !.lookClose = <<"|">>, !.operatorClass = "BarOperator",
                                !.delimiterClass = "BarDelimiter"]
    [] cls = "BarOperator" ->
         [BinaryOpProto EXCEPT !.kind = <<"|">>, !.precedence = 10]
    [] cls = "BarDelimiter" ->
         [DelimiterProto EXCEPT !.kind = <<"|">>, !.close = << <<"|">> >>]
    [] cls = "Identifier" ->
         [OperandProto EXCEPT !.kind = <<"i", "d", "e", "n", "t", "i", "f", "i", "e", "r">>,
                              !.pattern = "[a-zA-Z]"]
    [] cls = "Numeric" ->
         [OperandProto EXCEPT !.kind = <<"n", "u", "m", "b", "e", "r">>,
                              !.pattern = "[0-9]+", !.canApply = TRUE, !.astClass = "Num"]
    [] cls = "Trig" ->
         [ApplyProto EXCEPT !.kind = <<"t", "r", "i", "g">>, !.token = TrigNames,
                            !.autoApply = TRUE, !.isInvertible = TRUE]
    [] cls = "FunctionLetters" ->
         [ApplyProto EXCEPT !.kind = <<"f", "u", "n", "c", "t", "i", "o", "n", "s">>,
                            !.token = << <<"f">>, <<"g">> >>, !.requireArgument = FALSE]
    [] cls = "Funcs2" ->
         [ApplyProto EXCEPT !.kind = <<"f", "u", "n", "c", "t", "i", "o", "n", "s">>,
                            !.token = << <<"h">> >>, !.requireArgument = FALSE, !.args = 2]
    [] cls = "Funcs3" ->
         [ApplyProto EXCEPT !.kind = <<"f", "u", "n", "c", "t", "i", "o", "n", "s">>,
                            !.token = << <<"F">> >>, !.requireArgument = FALSE, !.args = -1]
    [] cls = "StrictInequalities" ->
         [RelationProto EXCEPT !.kind = <<"i", "n", "e", "q", "u", "a", "l", "i", "t", "i", "e", "s">>,
                               !.token = << <<"<">>, <<">">> >>, !.priority = 15]
    [] cls = "WeakInequalities" ->
         [RelationProto EXCEPT !.kind = <<"i", "n", "e", "q", "u", "a", "l", "i", "t", "i", "e", "s">>,
                               !.token = << <<"<", "=">>, <<">", "=">>,
                                            <<LessEqual>>, <<GreaterEqual>> >>,
                               !.combined = [n \in {<<"<", "=">>, <<">", "=">>} |-> <<n[1]>>],
                               !.normalize = [n \in {<<LessEqual>>, <<GreaterEqual>>} |->
                                                IF n = <<LessEqual>> THEN <<"<", "=">>
                                                ELSE <<">", "=">>],
                               !.opStrings = [n \in {<<"<", "=">>, <<">", "=">>} |->
                                                IF n = <<"<", "=">>
                                                THEN <<" ", LessEqual, " ">>
                                                ELSE <<" ", GreaterEqual, " ">>]]
    [] cls = "Equals" ->
         [RelationProto EXCEPT !.kind = <<"e", "q", "u", "a", "l", "s">>,
                               !.token = << <<"=">> >>]
    [] cls = "NotEqual" ->
         [RelationProto EXCEPT !.kind = <<"n", "o", "t", "e", "q", "u", "a", "l">>,
                               !.token = << <<"!", "=">>, <<NotEqualSign>> >>,
                               !.combine = FALSE, !.normalizeTo = <<"!", "=">>,
                               !.opString = <<NotEqualSign>>]
    [] cls = "InequalitiesWithVectors" ->
         [LookAheadProto EXCEPT !.isa = @ \cup {"Angle"},
                                !.kind = <<"a", "n", "g", "l", "e">>,
                                !.token = << <<"<">>, <<">">> >>,
                                !.operatorClass = "AngleOperator",
                                !.delimiterClass = "AngleDelimiter"]
    [] cls = "AngleOperator" -> [RelationProto EXCEPT !.kind = <<"<">>]
    [] cls = "AngleDelimiter" ->
         [DelimiterProto EXCEPT !.kind = <<"<">>, !.close = << <<">">> >>,
                                !.GroupAstClass = "Vector"]
    [] cls = "SetBraces" ->
         [DelimiterProto EXCEPT !.kind = <<"s", "e", "t">>,
                                !.token = << <<"{">>, <<"}">> >>, !.close = << <<"}">> >>,
                                !.allowEmpty = TRUE, !.GroupAstClass = "Set"]
    [] cls = "In" ->
         [BinaryOpProto EXCEPT !.kind = <<"i", "n">>,
                               !.token = << <<"i", "n">>, <<ElementOf>> >>,
                               !.precedence = 50, !.normalizeTo = <<ElementOf>>]

ClassNames ==
  {"Operand", "Operator", "BinaryOp", "UnaryOp", "Relation", "Delimiter",
   "LookAhead", "Apply", "ApplyOp", "Tree", "ApplyArgument", "ApplyPending",
   "Group", "Juxtapose", "Start", "End", "List", "Plus", "uplus", "UnaryMinus",
   "Minus", "Multiply", "Divide", "Power", "Factorial", "Prime", "Parens",
   "Bar", "BarOperator", "BarDelimiter", "Identifier", "Numeric", "Trig",
   "FunctionLetters", "Funcs2", "Funcs3", "StrictInequalities",
   "WeakInequalities", "Equals", "NotEqual", "InequalitiesWithVectors",
   "AngleOperator", "AngleDelimiter", "SetBraces", "In"}

\* the class table as the definitions build it
Classes == [cls \in ClassNames |-> ClassOf(cls)]

\* Parser.tokenMap: the token classes by name, set when the parser is
\* constructed and read by every token the parser makes
VARIABLE tokenMap

\* ------------------------------------------------------------------------
\* The pattern compiler and the tokenizer (Parser.getPattern, nextToken)
\* ------------------------------------------------------------------------

\* The ids of main.ts's registry that the model carries (the Standard,
\* Inequalities and Sets catalogs; the additional function and greek names
\* are left out), in registration order
MainTokens ==
  <<"List", "Plus", "UnaryMinus", "Minus", "Multiply", "Divide", "Power",
    "Factorial", "Parens", "Bar", "Identifier", "Numeric", "Trig", "Prime",
    "FunctionLetters", "Funcs2", "Funcs3", "StrictInequalities",
    "WeakInequalities", "Equals", "NotEqual", "InequalitiesWithVectors",
    "SetBraces", "In">>

RECURSIVE InsertByLength(_, _)
\* x placed into a list sorted longest first, before the first shorter name
InsertByLength(x, xs) ==
  IF xs = <<>> THEN <<x>>
  ELSE IF Len(x) > Len(Head(xs)) THEN <<x>> \o xs
  ELSE <<Head(xs)>> \o InsertByLength(x, Tail(xs))

RECURSIVE SortByLength(_)
\* Array.prototype.sort under getNamePattern's comparator: longest first
SortByLength(xs) ==
  IF xs = <<>> THEN <<>>
  ELSE InsertByLength(xs[Len(xs)], SortByLength(SubSeq(xs, 1, Len(xs) - 1)))

RECURSIVE AscendingSeq(_)
\* the numbers of a set in ascending order
AscendingSeq(S) ==
  IF S = {} THEN <<>>
  ELSE LET x == CHOOSE x \in S : \A y \in S : x <= y
       IN <<x>> \o AscendingSeq(S \ {x})

\* getNamesAndPatterns: NAMES.get(priority), the names of the registered
\* classes of that priority in registration order
NamesAt(tokens, priority) ==
  LET at(id) == tokenMap[id].priority = priority
      ids == SelectSeq(tokens, at)
  IN Flatten([k \in 1..Len(ids) |-> tokenMap[ids[k]].token])

\* NMAP.get(priority).get(name): the last registered class holding the name
NameId(tokens, priority, name) ==
  LET holds(id) == /\ tokenMap[id].priority = priority
                   /\ \E k \in 1..Len(tokenMap[id].token) : tokenMap[id].token[k] = name
      ids == SelectSeq(tokens, holds)
  IN ids[Len(ids)]

\* PATTERNS.get(priority): the ids of the classes with a pattern
PatternsAt(tokens, priority) ==
  LET has(id) == tokenMap[id].priority = priority /\ tokenMap[id].pattern # ""
  IN SelectSeq(tokens, has)

\* getNamePattern: the names of more than one character, longest first, and
\* then the single characters (the character class)
GetNamePattern(names) ==
  LET long(k) == Len(names[k]) > 1
      single(k) == Len(names[k]) = 1
      ks == [k \in 1..Len(names) |-> k]
      longKs == SelectSeq(ks, long)
      singleKs == SelectSeq(ks, single)
  IN [names |-> SortByLength([k \in 1..Len(longKs) |-> names[longKs[k]]]),
      chars |-> {names[singleKs[k]][1] : k \in 1..Len(singleKs)}]

\* getPatternParts: one part per name list and per pattern, by ascending
\* priority, the names of a priority before its patterns
GetPatternParts(tokens) ==
  LET prios == {tokenMap[tokens[k]].priority : k \in 1..Len(tokens)}
      sorted == AscendingSeq(prios)
      partsAt(p) ==
        LET names == NamesAt(tokens, p)
            pats == PatternsAt(tokens, p)
        IN (IF names # <<>>
            THEN <<[type |-> "names", priority |-> p, id |-> "",
                    pattern |-> GetNamePattern(names)]>>
            ELSE <<>>)
           \o [k \in 1..Len(pats) |->
                 [type |-> "pattern", priority |-> p, id |-> pats[k],
                  pattern |-> [names |-> <<>>, chars |-> {}]]]
  IN Flatten([k \in 1..Len(sorted) |-> partsAt(sorted[k])])

RECURSIVE DigitRun(_, _)
\* the end of the run of digits that starts at i
DigitRun(str, i) ==
  IF i <= Len(str) /\ IsDigit(str[i]) THEN DigitRun(str, i + 1) ELSE i

\* the text one part of the compiled pattern matches at i, or <<>>
PartMatch(part, str, i) ==
  IF part.type = "names"
  THEN LET ns == part.pattern.names
           hits == {k \in 1..Len(ns) : IsPrefixAt(ns[k], str, i)}
       IN IF hits # {}
          THEN ns[CHOOSE k \in hits : \A j \in hits : k <= j]
          ELSE IF str[i] \in part.pattern.chars THEN <<str[i]>> ELSE <<>>
  ELSE IF tokenMap[part.id].pattern = "[a-zA-Z]"
       THEN IF str[i] \in Letters THEN <<str[i]>> ELSE <<>>
       ELSE SubSeq(str, i, DigitRun(str, i) - 1)

RECURSIVE SkipSpaces(_, _)
SkipSpaces(str, i) ==
  IF i <= Len(str) /\ str[i] = " " THEN SkipSpaces(str, i + 1) ELSE i

RECURSIVE TrimLeft(_)
TrimLeft(str) == IF str # <<>> /\ Head(str) = " " THEN TrimLeft(Tail(str)) ELSE str

RECURSIVE TrimRight(_)
TrimRight(str) ==
  IF str # <<>> /\ str[Len(str)] = " "
  THEN TrimRight(SubSeq(str, 1, Len(str) - 1)) ELSE str

\* String.prototype.trim
Trim(str) == TrimRight(TrimLeft(str))

\* Parser.nextToken's match: positions are 1-based, so i = Len + 1 is the end.
\* kind is "end" (null is returned), "token" (id, term and the new position)
\* or "unexpected" (no part matches: Unexpected character).
NextMatch(parts, tokens, str, i0) ==
  IF i0 > Len(str) THEN [kind |-> "end", id |-> "", term |-> <<>>, i |-> i0]
  ELSE LET i == SkipSpaces(str, i0)
           hits == {n \in 1..Len(parts) : PartMatch(parts[n], str, i) # <<>>}
       IN IF i > Len(str) \/ hits = {}
          THEN [kind |-> "unexpected", id |-> "", term |-> <<>>, i |-> i]
          ELSE LET n == CHOOSE n \in hits : \A m \in hits : n <= m
                   term == PartMatch(parts[n], str, i)
               IN [kind |-> "token",
                   id |-> IF parts[n].type = "names"
                          THEN NameId(tokens, parts[n].priority, term)
                          ELSE parts[n].id,
                   term |-> term, i |-> i + Len(term)]

\* ------------------------------------------------------------------------
\* Token instances
\* ------------------------------------------------------------------------

\* Number.POSITIVE_INFINITY as an argument count
Infinity == -1

\* no AST: the undefined that childNodes[0] of an empty node is
Undefined == AstProto("undefined")

Isa(type, tok) == type \in tokenMap[tok.cls].isa

\* Token.normalizeValue; arg is NULL when the constructor gets no value
NormalizeValue(cls, arg) ==
  LET c == tokenMap[cls]
      name == IF arg = NULL \/ arg = <<>> THEN c.kind ELSE arg
  IN IF c.normalizeTo # NULL THEN c.normalizeTo
     ELSE IF c.normalize # <<>> /\ name \in DOMAIN c.normalize
          THEN c.normalize[name] ELSE name

\* Token.createAst's class lookup: this[type + 'AstClass'] || type, for the
\* class the token names; the 'base' entry of the AST map is AstNode
AstClassOf(cls) ==
  LET c == tokenMap[cls] IN
  IF c.astClass = "Group" /\ c.GroupAstClass # "" THEN c.GroupAstClass
  ELSE IF c.astClass = "base" THEN "AstNode"
  ELSE c.astClass

\* The Operator constructor: the transferIds are copied to the AST node when
\* they differ from what the node inherits, and opStrings[value] is set
OperatorAst(cls, value) ==
  LET c == tokenMap[cls]
      a == NewAst(AstClassOf(cls), value)
      inherits == a.kind \in OpKinds
      ids == {id \in {"associativity", "precedence", "isComma", "equalParens", "opString"} :
                \/ ~inherits
                \/ id = "associativity" /\ a.associativity # c.associativity
                \/ id = "precedence" /\ a.precedence # c.precedence
                \/ id = "isComma" /\ a.isComma # c.isComma
                \/ id = "equalParens" /\ a.equalParens # c.equalParens
                \/ id = "opString" /\ a.opString # c.opString}
      hasOpString == c.opStrings # <<>> /\ value \in DOMAIN c.opStrings
  IN [a EXCEPT !.associativity = c.associativity, !.precedence = c.precedence,
               !.isComma = c.isComma, !.equalParens = c.equalParens,
               !.opString = IF hasOpString THEN c.opStrings[value] ELSE c.opString,
               !.own = @ \cup ids \cup (IF hasOpString THEN {"opString"} ELSE {})]

\* an isClosedBy that takes every close delimiter but the End item
IsClosedByAny(cls, value) ==
  cls # "Start" \/ \E k \in 1..Len(tokenMap[cls].close) : tokenMap[cls].close[k] = value

\* Delimiter.isClosedBy
IsClosedBy(cls, value) ==
  \E k \in 1..Len(tokenMap[cls].close) : tokenMap[cls].close[k] = value

\* Delimiter.checkIfClose; isClose is "undef", "true" or "false"
CheckIfClose(cls, value, isClose) ==
  LET c == tokenMap[cls] IN
  IF c.isClose # "undef" THEN c.isClose = "true"
  ELSE IF isClose # "undef" THEN isClose = "true"
  ELSE IF value = c.kind THEN FALSE
  ELSE IsClosedBy(cls, value)

\* The constructors of Token, Operator, Relation, Delimiter and LookAhead:
\* the instance fields of a new token.  applyData is an index into the heap
\* of function application data (0: null).  type is the Operator's type; a
\* Relation overwrites it with its own symbol (relType), which is none of
\* 'unary', 'binary' and 'both': "relation" here.  revoked is a record of
\* what has happened to the token: saveFunction has set its canApply to false.
NewToken(cls, arg, isClose) ==
  LET c == tokenMap[cls]
      value == NormalizeValue(cls, arg)
  IN [cls |-> cls, value |-> value,
      ast |-> IF "Operator" \in c.isa THEN OperatorAst(cls, value)
              ELSE NewAst(AstClassOf(cls), value),
      applyData |-> 0, canApply |-> c.canApply,
      precedence |-> c.precedence,
      type |-> IF "Relation" \in c.isa THEN "relation" ELSE c.type,
      relType |-> IF "Relation" \in c.isa THEN value ELSE <<>>,
      list |-> IF "Relation" \in c.isa THEN <<value>> ELSE <<>>,
      pushed |-> FALSE, revoked |-> FALSE,
      saved |-> <<>>, isOpen |-> FALSE, hasComma |-> FALSE, isClosed |-> FALSE,
      isClose |-> IF "Delimiter" \in c.isa THEN CheckIfClose(cls, value, isClose)
                  ELSE FALSE,
      removable |-> c.removable,
      open |-> <<>>, close |-> <<>>, isApply |-> c.isApply]

\* Apply.invertAs
InvertAs(name) == <<"a">> \o name

\* ApplyData of a new Apply token
NewApplyData(cls) ==
  LET c == tokenMap[cls] IN
  [autoApply |-> c.autoApply,
   requireArgument |-> c.requireArgument \/ c.autoApply,
   args |-> c.args]

\* ------------------------------------------------------------------------
\* The parse state and its errors
\* ------------------------------------------------------------------------

\* The state the handlers work on: the Stack's items, the heap of ApplyData
\* objects tokens share by reference, and the error that aborted the parse
\* (err = "" while there is none); cleared is set by Parser.error, which sets
\* parser.stack to null before it throws.
\* log is the record of the calls Stack.push has made (the push, the call of
\* followedBy, the call of follows, the items put on the stack), and depth
\* is the number of calls of Stack.push that have not returned.
NewState ==
  [stk |-> <<>>, heap |-> <<>>, err |-> "", errArg |-> <<>>, cleared |-> FALSE,
   log |-> <<>>, depth |-> 0]

\* Parser.error / Token.error
Error(s, message, arg) ==
  IF s.err # "" THEN s
  ELSE [s EXCEPT !.err = message, !.errArg = arg, !.cleared = TRUE]

\* an Error thrown directly, or a TypeError of the runtime
Throw(s, message, arg) ==
  IF s.err # "" THEN s ELSE [s EXCEPT !.err = message, !.errArg = arg]

Failed(s) == s.err # ""

\* the class and the value of each item of a list, for an Angle what it has
\* found so far, for a Relation its type and its list, whether the item
\* has function data, and how many children its tree has
ItemNames(items) ==
  [k \in 1..Len(items) |->
     [cls |-> items[k].cls, value |-> items[k].value, isOpen |-> items[k].isOpen,
      hasComma |-> items[k].hasComma, isClosed |-> items[k].isClosed,
      relType |-> items[k].relType, list |-> items[k].list,
      revoked |-> items[k].revoked, hasApplyData |-> items[k].applyData # 0,
      children |-> Len(items[k].ast.childNodes)]]

\* a call is recorded: ev is what was called, flag what it answered, items
\* the items it returned, size the height of the stack when it returned
Logged(s, ev, flag, items) ==
  IF s.err # "" THEN s ELSE
  [s EXCEPT !.log = Append(@, [ev |-> ev, d |-> s.depth, flag |-> flag,
                               items |-> ItemNames(items), size |-> Len(s.stk)])]

\* Stack.top, Stack.pop and the plain this.stack.push(item) of Stack.push
Top(s) == s.stk[Len(s.stk)]
Pop(s) == [s EXCEPT !.stk = SubSeq(@, 1, Len(@) - 1)]
PushItem(s, item) == [s EXCEPT !.stk = Append(@, item)]
SetTop(s, item) == [s EXCEPT !.stk[Len(s.stk)] = item]

\* new Apply(stack, value): the token with its own ApplyData object
NewApply(s, cls, arg) ==
  LET t == NewToken(cls, arg, "undef")
      a == IF tokenMap[cls].isInvertible
           THEN [t.ast EXCEPT !.inverse = InvertAs(t.value), !.own = @ \cup {"inverse"}]
           ELSE t.ast
  IN [s |-> [s EXCEPT !.heap = Append(@, NewApplyData(cls))],
      tok |-> [t EXCEPT !.ast = a, !.applyData = Len(s.heap) + 1]]

\* new ApplyOp / ApplyArgument / ApplyPending (stack, token)
NewApplyOp(cls, token) ==
  [NewToken(cls, NULL, "undef") EXCEPT !.applyData = token.applyData]

\* ------------------------------------------------------------------------
\* tree(): the AST a token resolves to
\* ------------------------------------------------------------------------

\* instanceof Op, Name
IsOpNode(node) == node.kind \in OpKinds
IsNameNode(node) == node.kind \in {"Name", "FuncName"}

\* Delimiter.canBeRemoved
CanBeRemoved(tok) ==
  LET children == tok.ast.childNodes IN
  /\ tok.removable
  /\ Len(children) = 1
  /\ (~IsOpNode(children[1])
      \/ children[1].precedence > tokenMap[tok.cls].removePrecedence)

\* a Delimiter.tree that takes every empty pair
EmptyAlwaysAllowed(tok) == FALSE

\* Delimiter.tree's error: empty delimiters that may not be empty
EmptyNotAllowed(tok) ==
  /\ "Delimiter" \in tokenMap[tok.cls].isa
  /\ "StackDelimiter" \notin tokenMap[tok.cls].isa
  /\ Len(tok.ast.childNodes) = 0
  /\ ~tokenMap[tok.cls].allowEmpty
  /\ ~tok.isClose

\* UnaryMinus.tree: a positive number is negated in place
UnaryMinusTree(tok) ==
  LET ch == tok.ast.childNodes IN
  IF /\ tokenMap[tok.cls].negateNumbers
     /\ Len(ch) = 1
     /\ ch[1].kind = "Num"
     /\ ch[1].isNum /\ ch[1].num > 0
  THEN [ch[1] EXCEPT !.num = -ch[1].num]
  ELSE tok.ast

\* a power that is never an inverse
PowerTreeNeverInverts(tok) == tok.ast

\* Power.tree: an invertible function name to the power -1 is its inverse
PowerTree(tok) ==
  LET ch == tok.ast.childNodes IN
  IF /\ tok.applyData # 0
     /\ Len(ch) >= 2
     /\ ch[1].kind = "FuncName"
     /\ ch[1].inverse # <<>>
     /\ ToString(ch[2]) = <<"-", "1">>
  THEN [ch[1] EXCEPT !.value = ch[1].inverse]
  ELSE tok.ast

\* Relation.tree: more than two children make a MultiRel node
RelationTree(tok) ==
  LET c == tokenMap[tok.cls]
      type == tok.relType
      name == IF c.combined # <<>> /\ type \in DOMAIN c.combined
              THEN c.combined[type] ELSE type
  IN IF Len(tok.ast.childNodes) <= 2 THEN tok.ast
     ELSE [AstProto("MultiRel") EXCEPT
             !.value = name, !.childNodes = tok.ast.childNodes,
             !.relations = tok.list, !.opStrings = c.opStrings,
             !.own = {"value", "childNodes", "relations"}
                       \cup (IF c.opStrings # <<>> THEN {"opStrings"} ELSE {})]

\* ApplyOp.tree: a FuncApply named by its first child, or a FuncExp
ApplyOpTree(tok) ==
  LET tree == tok.ast
      prec == tokenMap["ApplyOp"].precedence
      auto == (prec = tok.precedence)
      ch == tree.childNodes
  IN IF ch # <<>> /\ IsNameNode(ch[1])
     THEN [tree EXCEPT !.value = ch[1].value,
                       !.childNodes = Tail(ch), !.autoApply = auto,
                       !.own = IF auto # tree.autoApply THEN @ \cup {"autoApply"} ELSE @]
     ELSE [AstProto("FuncExp") EXCEPT
             !.exp = IF ch = <<>> THEN <<Undefined>> ELSE <<ch[1]>>,
             !.childNodes = IF ch = <<>> THEN <<>> ELSE Tail(ch),
             !.autoApply = auto,
             !.own = {"value", "childNodes", "exp"}
                       \cup (IF auto THEN {"autoApply"} ELSE {})
                       \cup (IF prec # 350 THEN {"precedence"} ELSE {})]

\* token.tree() of every token class (where it does not raise an error)
Tree(tok) ==
  LET isa == tokenMap[tok.cls].isa
      ch == tok.ast.childNodes
  IN CASE "StackDelimiter" \in isa -> IF ch = <<>> THEN Undefined ELSE ch[1]
       [] "Delimiter" \in isa /\ "StackDelimiter" \notin isa ->
            IF CanBeRemoved(tok) THEN ch[1] ELSE tok.ast
       [] "UnaryMinus" \in isa -> UnaryMinusTree(tok)
       [] "Power" \in isa -> PowerTree(tok)
       [] "Relation" \in isa -> RelationTree(tok)
       [] "ApplyOp" \in isa -> ApplyOpTree(tok)
       [] OTHER -> tok.ast

\* an append that takes every child as it is
AstAppendNested(node, child) == [node EXCEPT !.childNodes = Append(@, child)]

\* AstObject.append, and Group.append, which takes the children of a comma
\* operator in place of the operator
AstAppend(node, child) ==
  IF node.kind \in (GroupKinds \ {"StackGroup"}) /\ IsOpNode(child) /\ child.isComma
  THEN [node EXCEPT !.childNodes = @ \o child.childNodes]
  ELSE [node EXCEPT !.childNodes = Append(@, child)]

\* ------------------------------------------------------------------------
\* Function application data
\* ------------------------------------------------------------------------

\* a check of the function data that leaves an unbounded count as it is
CheckFunctionKeepsCount(heap, a, b) ==
  LET thisData == heap[a]
      tokenData == heap[b]
  IN [ok |-> /\ thisData.autoApply = tokenData.autoApply
             /\ thisData.requireArgument = tokenData.requireArgument
             /\ (\/ thisData.args = tokenData.args
                 \/ thisData.args = Infinity \/ tokenData.args = Infinity),
      heap |-> heap]

\* Token.checkFunction on the ApplyData objects a (this) and b (the token's):
\* the keys are compared in the order autoApply, requireArgument, args, and
\* an unbounded args of this takes the token's count
CheckFunction(heap, a, b) ==
  LET thisData == heap[a]
      tokenData == heap[b]
  IN IF thisData.autoApply # tokenData.autoApply THEN [ok |-> FALSE, heap |-> heap]
     ELSE IF thisData.requireArgument # tokenData.requireArgument
     THEN [ok |-> FALSE, heap |-> heap]
     ELSE IF thisData.args = tokenData.args THEN [ok |-> TRUE, heap |-> heap]
     ELSE IF thisData.args = Infinity \/ tokenData.args = Infinity
     THEN [ok |-> TRUE,
           heap |-> IF tokenData.args # Infinity
                    THEN [heap EXCEPT ![a].args = tokenData.args] ELSE heap]
     ELSE [ok |-> FALSE, heap |-> heap]

\* this.checkFunction(token) has returned r: the data of this as it was, the
\* data of the token, and the data of this as it is now
FunctionChecked(s, r, a, b) ==
  [s EXCEPT !.heap = r.heap,
            !.log = Append(@, [ev |-> "checkFunction", d |-> s.depth, flag |-> r.ok,
                               items |-> <<s.heap[a], s.heap[b], r.heap[a]>>,
                               size |-> Len(s.stk)])]

\* a saveFunction that takes the function data of a child whether or not
\* this can still be applied
SaveFunctionRestores(s, this, token) ==
  IF Failed(s) THEN [s |-> s, tok |-> this]
  ELSE IF token.applyData # 0
  THEN IF this.applyData # 0
       THEN LET r == CheckFunction(s.heap, this.applyData, token.applyData)
                s1 == FunctionChecked(s, r, this.applyData, token.applyData)
            IN IF r.ok THEN [s |-> s1, tok |-> this]
               ELSE [s |-> Error(s1, "Functions are not compatible types for", this.value),
                     tok |-> this]
       ELSE [s |-> s, tok |-> [this EXCEPT !.applyData = token.applyData]]
  ELSE IF ~token.canApply
  THEN [s |-> s, tok |-> [this EXCEPT !.canApply = FALSE, !.applyData = 0,
                                      !.revoked = TRUE]]
  ELSE [s |-> s, tok |-> this]

\* Token.saveFunction(token) on the token `this'
SaveFunction(s, this, token) ==
  IF Failed(s) THEN [s |-> s, tok |-> this]
  ELSE IF token.applyData # 0 /\ this.canApply
  THEN IF this.applyData # 0
       THEN LET r == CheckFunction(s.heap, this.applyData, token.applyData)
                s1 == FunctionChecked(s, r, this.applyData, token.applyData)
            IN IF r.ok THEN [s |-> s1, tok |-> this]
               ELSE [s |-> Error(s1, "Functions are not compatible types for", this.value),
                     tok |-> this]
       ELSE [s |-> s, tok |-> [this EXCEPT !.applyData = token.applyData]]
  ELSE IF ~token.canApply
  THEN [s |-> s, tok |-> [this EXCEPT !.canApply = FALSE, !.applyData = 0,
                                      !.revoked = TRUE]]
  ELSE [s |-> s, tok |-> this]

\* token.tree() with the error Delimiter.tree can raise
TreeChecked(s, token) ==
  IF EmptyNotAllowed(token) THEN Error(s, "Empty delimiters not allowed", <<>>) ELSE s

\* new Tree(stack, token)
NewTree(s, token) ==
  LET t == [NewToken("Tree", NULL, "undef") EXCEPT !.ast = Tree(token)]
  IN SaveFunction(TreeChecked(s, token), t, token)

\* new Group(stack, open, close, token)
NewGroup(s, open, close, token) ==
  LET t == [NewToken("Group", NULL, "undef") EXCEPT
              !.ast = [Tree(token) EXCEPT !.open = open, !.close = close,
                                          !.own = @ \cup {"open", "close"}],
              !.open = open, !.close = close, !.isApply = token.isApply]
  IN SaveFunction(TreeChecked(s, token), t, token)

\* ApplyOp.name
ApplyOpName(tok) == ToString(tok.ast.childNodes[1]) \o <<"(", ")">>

\* an append that does not count the items of an argument group
TokAppendUncounted(s, this, token) ==
  IF Failed(s) THEN [s |-> s, tok |-> this]
  ELSE IF /\ Isa("ApplyOp", this)
          /\ this.ast.childNodes # <<>>
          /\ Isa("Group", token)
          /\ token.isApply
  THEN LET tree == Tree(token).childNodes
           s1 == IF this.applyData = 0 THEN Throw(s, "TypeError", <<>>) ELSE s
       IN [s |-> s1, tok |-> [this EXCEPT !.ast.childNodes = @ \o tree]]
  ELSE SaveFunction(TreeChecked(s, token),
                    [this EXCEPT !.ast = AstAppend(@, Tree(token))], token)

\* Token.append(token) on the token `this', and ApplyOp.append, which takes
\* the items of an argument group and checks their number
TokAppend(s, this, token) ==
  IF Failed(s) THEN [s |-> s, tok |-> this]
  ELSE IF /\ Isa("ApplyOp", this)
          /\ this.ast.childNodes # <<>>
          /\ Isa("Group", token)
          /\ token.isApply
  THEN LET tree == Tree(token).childNodes
           s1 == IF this.applyData = 0
                 THEN Throw(s, "TypeError", <<>>)
                 ELSE IF /\ s.heap[this.applyData].args # Len(tree)
                         /\ s.heap[this.applyData].args # Infinity
                 THEN Error(s, "Wrong number of arguments for", ApplyOpName(this))
                 ELSE s
       IN [s |-> s1, tok |-> [this EXCEPT !.ast.childNodes = @ \o tree]]
  ELSE SaveFunction(TreeChecked(s, token),
                    [this EXCEPT !.ast = AstAppend(@, Tree(token))], token)

\* ------------------------------------------------------------------------
\* Operators
\* ------------------------------------------------------------------------

\* Operator.canPrecedeOperand, canBeLeftUnary
CanPrecedeOperand(tok) ==
  tok.type = "binary" \/ tokenMap[tok.cls].associativity = "left"
\* no operator can be a prefix operator
NeverLeftUnary(tok) == FALSE
CanBeLeftUnary(tok) ==
  tok.type # "binary" /\ tokenMap[tok.cls].associativity = "left"

\* Operator.checkIsLeftUnary, checkIsRightUnary, checkOperands
CheckIsLeftUnary(this, top) ==
  /\ tokenMap[this.cls].associativity = "left"
  /\ (this.type = "unary" \/ (this.type = "both" /\ ~Isa("Operand", top)))
CheckIsRightUnary(this, top) ==
  /\ tokenMap[this.cls].associativity = "right"
  /\ (this.type = "unary" \/ (this.type = "both" /\ ~Isa("Operator", top)))
CheckOperands(this) ==
  \/ Len(this.ast.childNodes) >= 2
  \/ (this.type = "unary" /\ Len(this.ast.childNodes) = 1)

\* a comparison that looks at the associativity alone
OperatorIsLeftAssociative(this, prev) ==
  tokenMap[this.cls].associativity = "left"

\* a comparison that never lets an operator of equal precedence go first
OperatorIsStrictlyHigher(this, prev) == prev.precedence > this.precedence

\* Operator.checkIsHigherPrecedence
OperatorIsHigherPrecedence(this, prev) ==
  \/ prev.precedence > this.precedence
  \/ (prev.precedence = this.precedence /\ tokenMap[this.cls].associativity = "left")

\* checkIsHigherPrecedence, with ApplyArgument's override
CheckIsHigherPrecedence(this, prev, top) ==
  IF Isa("ApplyArgument", this)
  THEN top.applyData = 0 \/ OperatorIsHigherPrecedence(this, prev)
  ELSE OperatorIsHigherPrecedence(this, prev)

\* a canCombine that never lets an operator join the one before it
OperatorNeverCombines(this, prev) == FALSE

\* Operator.canCombine
OperatorCanCombine(this, prev) ==
  prev.value = this.value /\ tokenMap[this.cls].combine /\ prev.type # "unary"

\* Relation.canCombine's test
RelationCanCombine(this, prev) ==
  /\ tokenMap[this.cls].combine
  /\ Isa("Relation", prev)
  /\ (\/ prev.relType = <<"=">>
      \/ this.value = <<"=">>
      \/ Head(prev.relType) = Head(this.value))

\* canCombine of the class of this
CanCombine(this, prev) ==
  IF Isa("Relation", this) THEN RelationCanCombine(this, prev)
  ELSE OperatorCanCombine(this, prev)

\* a combination that forgets the second relation
RelationForgotten(this, prev) ==
  [prev EXCEPT !.relType = IF @ = <<"=">> THEN <<Head(this.value)>> ELSE @]

\* what Relation.canCombine does to prev when the relations combine
RelationCombined(this, prev) ==
  [prev EXCEPT !.list = Append(@, this.value),
               !.relType = IF @ = <<"=">> THEN <<Head(this.value)>> ELSE @]

\* Operator.makeUnary: createToken('unary', value) takes the unaryClass, and
\* the token map has no class named 'unary' to stand in for a missing one
MakeUnary(s, this) ==
  IF this.type = "unary" THEN [s |-> s, tok |-> this]
  ELSE IF tokenMap[this.cls].unaryClass = ""
  THEN [s |-> Throw(s, "No definition for token class", <<"u", "n", "a", "r", "y">>),
        tok |-> this]
  ELSE [s |-> s, tok |-> NewToken(tokenMap[this.cls].unaryClass, this.value, "undef")]

\* ------------------------------------------------------------------------
\* The stack and the handlers of the tokens on it
\* ------------------------------------------------------------------------

\* The handlers call one another through the stack: a handler that pushes,
\* appends to the top item, asks the top item to close, or loops over the
\* items to close, makes the call by the name of the method.
RECURSIVE Call(_, _, _)

\* stack.push(token), and the push of each token of a list
Push(s, token) == Call("push", s, token)
PushAll(s, tokens) == Call("pushAll", s, tokens)
\* stack.top().append(token)
AppendTop(s, token) == Call("append", s, token)
\* stack.top().group(item)
Group(s, item) == Call("group", s, item)
\* the loop of Delimiter.follows for the close delimiter `this'
CloseLoop(s, this) == Call("close", s, this)

\* the result of a followedBy that declines (null)
Declined(s, token) == [s |-> s, handled |-> FALSE, items |-> <<>>, tok |-> token]
\* the result of a followedBy that returns items
Handled(s, items, token) == [s |-> s, handled |-> TRUE, items |-> items, tok |-> token]

\* stack.push(token) of a token that was just made: r holds the state after
\* its constructor and the token
PushMade(r) == Push(r.s, r.tok)
\* createToken('Tree', token) of a token that was just made
TreeOfMade(r) == NewTree(r.s, r.tok)
\* a follows that returns the token that was just made
MadeItems(r) == [s |-> r.s, items |-> <<r.tok>>]

\* ApplyPending.pushApplyOp
PushApplyOp(s, this, token) ==
  LET data == s.heap[this.applyData]
      cls == IF token.isApply THEN "ApplyArgument"
             ELSE IF data.autoApply THEN "ApplyOp" ELSE ""
  IN IF cls = ""
     THEN [s |-> IF data.requireArgument
                 THEN Error(s, "Function argument must be enclosed", <<>>) ELSE s,
           pushed |-> FALSE]
     ELSE [s |-> Push(s, NewApplyOp(cls, this)), pushed |-> TRUE]

\* ApplyPending.checkOperator with checkRequiredArgument and checkAutoApply;
\* the token is an Operator
ApplyPendingCheckOperator(s, token) ==
  LET this == Top(s)
      s1 == Pop(s)
      prev == Top(s1)
      data == s.heap[this.applyData]
      try == ~data.requireArgument \/ tokenMap[token.cls].appliesLeft
      s2 == IF try THEN Push(s1, token) ELSE s1
  IN IF Failed(s2) THEN Handled(s2, <<>>, token)
     ELSE IF try /\ Top(s2).canApply
     THEN Handled(s2, <<[this EXCEPT !.precedence = token.precedence]>>, token)
     ELSE IF data.autoApply /\ CanBeLeftUnary(token)
     THEN LET m == MakeUnary(s2, token) IN Handled(m.s, <<this, m.tok>>, token)
     ELSE IF data.autoApply /\ Isa("Juxtapose", token)
     THEN Handled(s2, <<this>>, token)
     ELSE Handled(Error(s2, "Missing argument for", ToString(prev.ast)), <<>>, token)

\* the end of ApplyPending.checkOperand: r is what pushApplyOp returned
OperandAfterApplyOp(r, token) ==
  IF Failed(r.s) THEN Handled(r.s, <<>>, token)
  ELSE IF ~r.pushed THEN Declined(r.s, token)
  ELSE Handled(Push(r.s, token), <<>>, token)

\* ApplyPending.checkOperand; the token is an Operand
ApplyPendingCheckOperand(s, token) ==
  LET this == Top(s)
      s1 == Pop(s)
  IN IF Isa("Operator", Top(s1)) THEN Handled(Push(s1, token), <<this>>, token)
     ELSE OperandAfterApplyOp(PushApplyOp(s1, this, token), token)

\* ApplyPending.followedBy: checkOperator || checkOperand || checkDelimiter
ApplyPendingFollowedBy(s, token) ==
  IF Isa("Operator", token) THEN ApplyPendingCheckOperator(s, token)
  ELSE IF Isa("Operand", token) THEN ApplyPendingCheckOperand(s, token)
  ELSE IF Isa("Delimiter", token) /\ token.isApply
  THEN Declined(s, [token EXCEPT !.removable = FALSE])
  ELSE Declined(s, token)

\* the end of ApplyPending.appendOperator: s2 is the stack after the
\* operator below took the token
OperatorAppended(s2, this) ==
  IF Failed(s2) THEN s2
  ELSE Push(PushMade(NewTree(Pop(s2), Top(s2))),
            [this EXCEPT !.precedence = tokenMap["ApplyPending"].precedence])

\* the end of ApplyPending.appendOther: r is what pushApplyOp returned
OtherAppended(r, token) ==
  LET s2 == TreeChecked(r.s, token)
  IN IF Failed(s2) \/ ~r.pushed THEN s2
     ELSE SetTop(s2, [Top(s2) EXCEPT !.ast = AstAppend(@, Tree(token))])

\* ApplyPending.append with appendOperator and appendOther
ApplyPendingAppend(s, token) ==
  LET this == Top(s)
      s1 == Pop(s)
  IN IF Isa("Operator", Top(s1))
     THEN OperatorAppended(AppendTop(s1, token), this)
     ELSE OtherAppended(PushApplyOp(s1, this, token), token)

\* ApplyPending.group
ApplyPendingGroup(s) ==
  LET this == Top(s)
      s1 == Pop(s)
  IN IF s.heap[this.applyData].requireArgument
     THEN Push(s1, NewApplyOp("ApplyArgument", this)) ELSE s1

\* stack.top().append(token) of a token that was just made
AppendMade(r) == AppendTop(r.s, r.tok)

\* ApplyOp.group
ApplyOpGroup(s) ==
  LET this == Top(s)
  IN IF Len(this.ast.childNodes) < 2
     THEN Error(s, "Missing argument for", ApplyOpName(this))
     ELSE AppendMade(NewTree(Pop(s), this))

\* Token.group
TokenGroup(s) == AppendTop(Pop(s), Top(s))

\* Operator.group
OperatorGroup(s) ==
  IF ~CheckOperands(Top(s))
  THEN Error(s, "Missing operand following", Top(s).ast.value)
  ELSE TokenGroup(s)

\* the end of LookAhead.unravel: this is the look-ahead after this.saved = []
Unravelled(s, this) == Logged(s, "unravelled", TRUE, this.saved)

\* an unravel that pushes the saved tokens last one first
UnravelReversed(s, item, isClose) ==
  LET this == Top(s)
      c == tokenMap[this.cls]
      cls == IF item = "operator" THEN c.operatorClass ELSE c.delimiterClass
      s1 == Logged(s, "unravel", item = "operator", <<this>> \o this.saved)
      reversed == [k \in 1..Len(this.saved) |-> this.saved[Len(this.saved) + 1 - k]]
  IN Unravelled(PushAll(Push(Pop(s1), NewToken(cls, NULL, isClose)), reversed),
                [this EXCEPT !.saved = <<>>])

\* LookAhead.unravel: the look-ahead token on top is replaced by the operator
\* or delimiter it turns out to be, and the saved tokens are pushed again
Unravel(s, item, isClose) ==
  LET this == Top(s)
      c == tokenMap[this.cls]
      cls == IF item = "operator" THEN c.operatorClass ELSE c.delimiterClass
      s1 == Logged(s, "unravel", item = "operator", <<this>> \o this.saved)
  IN Unravelled(PushAll(Push(Pop(s1), NewToken(cls, NULL, isClose)), this.saved),
                [this EXCEPT !.saved = <<>>])

\* a look-ahead that takes the end of its group for its own close
LookAheadGroupAsDelimiter(s) ==
  IF Top(s).saved # <<>> THEN Unravel(s, "delimiter", "false")
  ELSE Error(s, "Missing operand after", Top(s).value)

\* LookAhead.group
LookAheadGroup(s) ==
  IF Top(s).saved # <<>> THEN Unravel(s, "operator", "false")
  ELSE Error(s, "Missing operand after", Top(s).value)

\* LookAhead.followedBySelf
LookAheadFollowedBySelf(s, token) ==
  LET this == Top(s)
      c == tokenMap[this.cls]
      top == this.saved[Len(this.saved)]
  IN IF this.saved # <<>> /\ ~(Isa("Operator", top) /\ CanPrecedeOperand(top))
     THEN Handled(Push(Unravel(s, "delimiter", "false"),
                       NewToken(c.delimiterClass, c.lookClose, "true")),
                  <<>>, token)
     ELSE Handled(s, <<token>>, token)

\* the end of LookAhead.followedBy: a token of the same class goes to
\* followedBySelf, any other is saved
LookAheadSave(s, token) ==
  IF token.cls = Top(s).cls THEN LookAheadFollowedBySelf(s, token)
  ELSE Handled(SetTop(s, [Top(s) EXCEPT !.saved = Append(@, token)]), <<>>, token)

\* a checkIsClosed that takes every closed angle for a pair of relations
AngleClosedAsOperator(s, token) ==
  LET c == tokenMap[Top(s).cls]
      s1 == Push(Unravel(s, "operator", "false"),
                 NewToken(c.operatorClass, c.token[2], "true"))
  IN Handled(Push(s1, token), <<>>, token)

\* Angle.checkIsClosed, when the angle has been closed
AngleClosed(s, token) ==
  LET this == Top(s)
      c == tokenMap[this.cls]
      isOperator == Isa("Operand", token) /\ this.hasComma /\ ~this.isOpen
      item == IF isOperator THEN "operator" ELSE "delimiter"
      cls == IF isOperator THEN c.operatorClass ELSE c.delimiterClass
      s1 == Push(Unravel(s, item, "false"), NewToken(cls, c.token[2], "true"))
  IN Handled(Push(s1, token), <<>>, token)

\* Angle.followedBySelf
AngleFollowedBySelf(s, token) ==
  IF token.value = tokenMap[Top(s).cls].token[1] THEN Handled(s, <<token>>, token)
  ELSE Handled(SetTop(s, [Top(s) EXCEPT !.isClosed = TRUE]), <<>>, token)

\* LookAhead.followedBy with Angle.followedByCheck
AngleFollowedBy(s, token) ==
  LET this == Top(s)
      s1 == IF Isa("Operator", token) /\ token.value = <<",">>
            THEN SetTop(s, [this EXCEPT !.hasComma = TRUE]) ELSE s
  IN IF this.isClosed THEN AngleClosed(s, token)
     ELSE IF Isa("Delimiter", token) THEN Declined(s, token)
     ELSE IF token.cls = this.cls THEN AngleFollowedBySelf(s1, token)
     ELSE Handled(SetTop(s1, [Top(s1) EXCEPT !.saved = Append(@, token)]), <<>>, token)

\* LookAhead.followedBy with LookAhead.followedByCheck
LookAheadFollowedBy(s, token) ==
  IF Isa("Delimiter", token) THEN Declined(s, token)
  ELSE LookAheadSave(s, token)

\* top.followedBy(token) has returned r: null (not handled) or a list
FollowedByReturned(r) ==
  [r EXCEPT !.s = Logged(r.s, "followedBy", r.handled, r.items)]

\* top.followedBy(token) of the class of the top item
FollowedBy(s, token) ==
  LET this == Top(s) IN
  FollowedByReturned(
    IF Isa("ApplyPending", this) THEN ApplyPendingFollowedBy(s, token)
    ELSE IF Isa("Angle", this) THEN AngleFollowedBy(s, token)
    ELSE IF Isa("LookAhead", this) THEN LookAheadFollowedBy(s, token)
    ELSE Declined(s, token))

\* this.canCombine(prev) has returned: prev as it was and as it is now
CanCombineReturned(s, this, prev) ==
  Logged(s, "canCombine", CanCombine(this, prev),
         <<this, prev,
           IF CanCombine(this, prev) /\ Isa("Relation", this)
           THEN RelationCombined(this, prev) ELSE prev>>)

\* the end of Operator.checkOperator, when prev has taken the operand: prev
\* stays open with this combined into it, or the tree of prev is pushed and
\* this after it
OperatorCombines(s, this, prev) ==
  IF CanCombine(this, prev)
  THEN [s |-> IF Isa("Relation", this) THEN SetTop(s, RelationCombined(this, prev))
              ELSE s,
        handled |-> TRUE]
  ELSE [s |-> Push(PushMade(NewTree(Pop(s), prev)), this), handled |-> TRUE]

\* Operator.checkOperator: the operand on top is popped, and an operator
\* below it that binds tighter takes it; this either combines with that
\* operator or is pushed after that operator's tree
CheckOperator(s, this, top) ==
  LET s1 == Pop(s)
      prev == Top(s1)
      s2 == AppendTop(s1, top)
      \* prev after prev.append(top): an ApplyPending has left the stack
      prev2 == IF Isa("ApplyPending", prev) THEN prev ELSE Top(s2)
  IN IF s1.stk = <<>> THEN [s |-> Throw(s1, "TypeError", <<>>), handled |-> TRUE]
     ELSE IF Isa("Operator", prev) /\ CheckIsHigherPrecedence(this, prev, top)
     THEN IF Failed(s2) THEN [s |-> s2, handled |-> TRUE]
          ELSE OperatorCombines(CanCombineReturned(s2, this, prev2), this, prev2)
     ELSE [s |-> s1, handled |-> FALSE]

\* the end of Operator.follows: a is the state and the operator after
\* this.append(top), with top.copyApplyDataTo(this) for a function name; a
\* postfix operator is made unary and pushed as a tree
OperatorTookOperand(a, top) ==
  LET this1 == IF Isa("Apply", top) THEN [a.tok EXCEPT !.applyData = top.applyData]
               ELSE a.tok
  IN IF Failed(a.s) THEN [s |-> a.s, items |-> <<>>]
     ELSE IF CheckIsRightUnary(this1, top)
     THEN [s |-> PushMade(TreeOfMade(MakeUnary(a.s, this1))), items |-> <<>>]
     ELSE [s |-> a.s, items |-> <<this1>>]

\* the middle of Operator.follows: c is what checkOperator returned
OperatorChecked(c, this, top) ==
  IF Failed(c.s) \/ c.handled THEN [s |-> c.s, items |-> <<>>]
  ELSE OperatorTookOperand(TokAppend(c.s, this, top), top)

\* Operator.follows
OperatorFollows(s, this) ==
  LET top == Top(s)
  IN IF CheckIsLeftUnary(this, top) THEN MadeItems(MakeUnary(s, this))
     ELSE IF ~Isa("Operand", top)
     THEN [s |-> Error(s, "Missing operand before", this.value), items |-> <<>>]
     ELSE OperatorChecked(CheckOperator(s, this, top), this, top)

\* Operand.follows
OperandFollows(s, this) ==
  IF ~Isa("Operand", Top(s)) THEN [s |-> s, items |-> <<this>>]
  ELSE [s |-> Push(Push(s, NewToken("Juxtapose", NULL, "undef")), this), items |-> <<>>]

\* Apply.follows
ApplyFollows(s, this) ==
  LET this1 == [this EXCEPT !.pushed = TRUE]
      s1 == IF Isa("Operand", Top(s)) THEN Push(s, NewToken("Juxtapose", NULL, "undef"))
            ELSE s
  IN IF this.pushed THEN [s |-> s, items |-> <<this>>]
     ELSE [s |-> s1, items |-> <<this1, NewApplyOp("ApplyPending", this1)>>]

\* an angle that can open a vector whatever it follows
AngleFollowsAlwaysOpen(s, this) ==
  LET c == tokenMap[this.cls]
  IN IF this.value = c.token[1]
     THEN [s |-> s, items |-> <<[this EXCEPT !.isOpen = TRUE]>>]
     ELSE [s |-> Push(s, NewToken(c.operatorClass, this.value, "undef")), items |-> <<>>]

\* Angle.follows
AngleFollows(s, this) ==
  LET c == tokenMap[this.cls]
      top == Top(s)
  IN IF this.value = c.token[1]
     THEN [s |-> s,
           items |-> <<IF \/ Isa("Delimiter", top)
                          \/ (Isa("Operator", top) /\ CanPrecedeOperand(top))
                       THEN [this EXCEPT !.isOpen = TRUE] ELSE this>>]
     ELSE [s |-> Push(s, NewToken(c.operatorClass, this.value, "undef")), items |-> <<>>]

\* Delimiter.follows: a close delimiter asks the items on top of the stack to
\* close themselves until one says it is the open delimiter
DelimiterFollows(s, this) ==
  IF ~this.isClose THEN [s |-> s, items |-> <<this>>]
  ELSE [s |-> CloseLoop(s, this), items |-> <<>>]

\* one turn of the loop: r is what top.group(this) returned
CloseNext(r, this) ==
  IF Failed(r.s) \/ r.ret THEN r.s ELSE CloseLoop(r.s, this)

\* top.group(this) is about to be called in the loop of Delimiter.follows:
\* the top is a look-ahead with saved tokens, or it is not
AskedToGroup(s, this) ==
  Logged(s, "group", Isa("LookAhead", Top(s)) /\ Top(s).saved # <<>>, <<this, Top(s)>>)

\* the while loop of Delimiter.follows
DelimiterFollowsLoop(s, this) ==
  IF Failed(s) THEN s
  ELSE IF s.stk = <<>> THEN Error(s, "Extra close delimiter", this.value)
  ELSE CloseNext(Group(AskedToGroup(s, this), this), this)

\* token.follows(top) has returned r
FollowsReturned(r) == [r EXCEPT !.s = Logged(r.s, "follows", TRUE, r.items)]

\* token.follows(top) of the class of the token
Follows(s, token) ==
  FollowsReturned(
    IF Isa("Angle", token) THEN AngleFollows(s, token)
    ELSE IF Isa("Delimiter", token) THEN DelimiterFollows(s, token)
    ELSE IF Isa("ApplyPending", token) THEN [s |-> s, items |-> <<token>>]
    ELSE IF Isa("Apply", token) THEN ApplyFollows(s, token)
    ELSE IF Isa("Operand", token) THEN OperandFollows(s, token)
    ELSE IF Isa("Operator", token) THEN OperatorFollows(s, token)
    ELSE [s |-> s, items |-> <<token>>])

\* a closed delimiter that never asks for an argument
DelimiterClosedNoPending(s2, this) == s2

\* the end of Delimiter.group for a delimiter that is closed: s2 is the
\* stack with the tree or the group of the delimiter pushed
DelimiterClosed(s2, this) ==
  IF this.applyData # 0 THEN Push(s2, NewApplyOp("ApplyPending", this)) ELSE s2

\* a group that lets a close delimiter it does not take go on to the items
\* under it
DelimiterGroupPassesOver(s, item) ==
  LET this == Top(s)
      s1 == Pop(s)
  IN IF IsClosedBy(this.cls, item.value)
     THEN IF Isa("Start", this) THEN [s |-> s, ret |-> TRUE]
          ELSE [s |-> DelimiterClosed(PushMade(IF CanBeRemoved(this)
                                               THEN NewTree(s1, this)
                                               ELSE NewGroup(s1, this.value,
                                                             item.value, this)),
                                      this),
                ret |-> TRUE]
     ELSE IF Isa("Start", this)
     THEN [s |-> Error(s, "Missing open delimiter for", item.value), ret |-> FALSE]
     ELSE IF Isa("End", item)
     THEN [s |-> Error(s, "Missing close delimiter for", this.value), ret |-> FALSE]
     ELSE [s |-> s1, ret |-> FALSE]

\* a group in which the Start item gives way to a close delimiter it does
\* not take
DelimiterGroupPopsStart(s, item) ==
  LET this == Top(s)
      s1 == Pop(s)
  IN IF IsClosedBy(this.cls, item.value)
     THEN IF Isa("Start", this) THEN [s |-> s, ret |-> TRUE]
          ELSE [s |-> DelimiterClosed(PushMade(IF CanBeRemoved(this)
                                               THEN NewTree(s1, this)
                                               ELSE NewGroup(s1, this.value,
                                                             item.value, this)),
                                      this),
                ret |-> TRUE]
     ELSE IF Isa("Start", this)
     THEN [s |-> s1, ret |-> FALSE]
     ELSE IF Isa("End", item)
     THEN [s |-> Error(s, "Missing close delimiter for", this.value), ret |-> FALSE]
     ELSE [s |-> Error(s, "Mismatched delimiters", this.value \o item.value),
           ret |-> FALSE]

\* Delimiter.group
DelimiterGroup(s, item) ==
  LET this == Top(s)
      s1 == Pop(s)
  IN IF IsClosedBy(this.cls, item.value)
     THEN IF Isa("Start", this) THEN [s |-> s, ret |-> TRUE]
          ELSE [s |-> DelimiterClosed(PushMade(IF CanBeRemoved(this)
                                               THEN NewTree(s1, this)
                                               ELSE NewGroup(s1, this.value,
                                                             item.value, this)),
                                      this),
                ret |-> TRUE]
     ELSE IF Isa("Start", this)
     THEN [s |-> Error(s, "Missing open delimiter for", item.value), ret |-> FALSE]
     ELSE IF Isa("End", item)
     THEN [s |-> Error(s, "Missing close delimiter for", this.value), ret |-> FALSE]
     ELSE [s |-> Error(s, "Mismatched delimiters", this.value \o item.value),
           ret |-> FALSE]

\* top.group(item) of the class of the top item
TopGroup(s, item) ==
  LET this == Top(s) IN
  IF Isa("Delimiter", this) THEN DelimiterGroup(s, item)
  ELSE IF Isa("LookAhead", this) THEN [s |-> LookAheadGroup(s), ret |-> FALSE]
  ELSE IF Isa("ApplyPending", this) THEN [s |-> ApplyPendingGroup(s), ret |-> FALSE]
  ELSE IF Isa("ApplyOp", this) THEN [s |-> ApplyOpGroup(s), ret |-> FALSE]
  ELSE IF Isa("Operator", this) THEN [s |-> OperatorGroup(s), ret |-> FALSE]
  ELSE [s |-> TokenGroup(s), ret |-> FALSE]

\* the top item after its append: r holds the state and the item
TopAppended(r) == IF Failed(r.s) THEN r.s ELSE SetTop(r.s, r.tok)

\* top.append(token) of the class of the top item; the top item stays where
\* it is except for an ApplyPending, which rearranges the stack
TopAppend(s, token) ==
  IF Failed(s) THEN s
  ELSE IF s.stk = <<>> THEN Throw(s, "TypeError", <<>>)
  ELSE IF Isa("ApplyPending", Top(s)) THEN ApplyPendingAppend(s, token)
  ELSE TopAppended(TokAppend(s, Top(s), token))

\* the items a followedBy or a follows returned are put on the stack
\* Stack.push returns: the n items on top of the stack are those it put there
Placed(s, n) ==
  [Logged(s, "placed", TRUE, SubSeq(s.stk, Len(s.stk) - n + 1, Len(s.stk)))
     EXCEPT !.depth = @ - 1]

PushItems(r) ==
  IF Failed(r.s) THEN r.s
  ELSE Placed([r.s EXCEPT !.stk = @ \o r.items], Len(r.items))

\* a push that takes an empty list from followedBy for a null, as a test of
\* the list for truth would
PushFollowedEmptyAsNull(f) ==
  IF Failed(f.s) \/ (f.handled /\ f.items # <<>>) THEN PushItems(f)
  ELSE PushItems(Follows(f.s, f.tok))

\* the end of Stack.push: f is what top.followedBy(token) returned
PushFollowed(f) ==
  IF Failed(f.s) \/ f.handled THEN PushItems(f) ELSE PushItems(Follows(f.s, f.tok))

\* Stack.push is called with a token: flag says whether the stack has a top,
\* and the items are the token and the top it meets
Entered(s, token) ==
  Logged([s EXCEPT !.depth = @ + 1], "push", s.stk # <<>>,
         IF s.stk # <<>> THEN <<token, Top(s)>> ELSE <<token>>)

\* Stack.push: the top item may handle the token (followedBy), otherwise the
\* token says what to push (follows); the items are pushed as they are
StackPush(s, token) ==
  IF Failed(s) THEN s
  ELSE PushFollowed(IF s.stk = <<>> THEN Declined(Entered(s, token), token)
                    ELSE FollowedBy(Entered(s, token), token))

\* the push of each token of a list, in order
StackPushAll(s, tokens) ==
  IF tokens = <<>> THEN s ELSE PushAll(Push(s, Head(tokens)), Tail(tokens))

\* the method of the name, on the stack of s
Call(method, s, arg) ==
  CASE method = "push" -> StackPush(s, arg)
    [] method = "pushAll" -> StackPushAll(s, arg)
    [] method = "append" -> TopAppend(s, arg)
    [] method = "group" -> TopGroup(s, arg)
    [] method = "close" -> DelimiterFollowsLoop(s, arg)

\* Parser.createToken for a token the tokenizer found: new CLASS(stack, term)
CreateToken(s, cls, term) ==
  IF Isa("Apply", [cls |-> cls]) THEN NewApply(s, cls, term)
  ELSE [s |-> s, tok |-> NewToken(cls, term, "undef")]

\* ------------------------------------------------------------------------
\* JSON
\* ------------------------------------------------------------------------

\* a toJSON that copies null for every opString
PropertyOfWithoutOpString(node, p) ==
  CASE p = "value" -> IF node.isNum THEN [num |-> node.num] ELSE [str |-> node.value]
    [] p = "precedence" -> node.precedence
    [] p = "associativity" -> node.associativity
    [] p = "opString" -> NULL
    [] p = "equalParens" -> node.equalParens
    [] p = "isComma" -> node.isComma
    [] p = "open" -> node.open
    [] p = "close" -> node.close
    [] p = "relations" -> node.relations
    [] p = "opStrings" -> node.opStrings
    [] p = "inverse" -> node.inverse
    [] p = "autoApply" -> node.autoApply

\* the value of the property p of a node, as toJSON copies it
PropertyOf(node, p) ==
  CASE p = "value" -> IF node.isNum THEN [num |-> node.num] ELSE [str |-> node.value]
    [] p = "precedence" -> node.precedence
    [] p = "associativity" -> node.associativity
    [] p = "opString" -> node.opString
    [] p = "equalParens" -> node.equalParens
    [] p = "isComma" -> node.isComma
    [] p = "open" -> node.open
    [] p = "close" -> node.close
    [] p = "relations" -> node.relations
    [] p = "opStrings" -> node.opStrings
    [] p = "inverse" -> node.inverse
    [] p = "autoApply" -> node.autoApply

RECURSIVE ToJSON(_)
\* AstObject.toJSON, AstLeaf.toJSON and FuncExp.toJSON: the kind and the
\* node's own properties, the children and the exp as JSON in their turn
ToJSON(node) ==
  [kind |-> node.kind,
   props |-> [p \in node.own \ {"childNodes", "exp"} |-> PropertyOf(node, p)],
   hasChildNodes |-> node.kind \notin LeafKinds,
   childNodes |-> IF node.kind \in LeafKinds THEN <<>>
                  ELSE [k \in 1..Len(node.childNodes) |-> ToJSON(node.childNodes[k])],
   exp |-> IF node.kind = "FuncExp" THEN <<ToJSON(node.exp[1])>> ELSE <<>>]

RECURSIVE FromJSON(_)
\* Parser.fromJSON with the fromJSON of the AST classes: an object with the
\* prototype of the class of json.kind that is assigned the properties of
\* the JSON object, its childNodes and exp converted first
FromJSON(json) ==
  LET proto == AstProto(json.kind)
      has(p) == p \in DOMAIN json.props
      get(p) == json.props[p]
  IN [kind |-> json.kind,
      value |-> IF has("value") /\ "str" \in DOMAIN get("value")
                THEN get("value").str ELSE proto.value,
      isNum |-> has("value") /\ "num" \in DOMAIN get("value"),
      num |-> IF has("value") /\ "num" \in DOMAIN get("value")
              THEN get("value").num ELSE 0,
      childNodes |-> IF ~json.hasChildNodes THEN <<>>
                     ELSE [k \in 1..Len(json.childNodes) |-> FromJSON(json.childNodes[k])],
      precedence |-> IF has("precedence") THEN get("precedence") ELSE proto.precedence,
      associativity |-> IF has("associativity") THEN get("associativity")
                        ELSE proto.associativity,
      opString |-> IF has("opString") THEN get("opString") ELSE proto.opString,
      equalParens |-> IF has("equalParens") THEN get("equalParens") ELSE proto.equalParens,
      isComma |-> IF has("isComma") THEN get("isComma") ELSE proto.isComma,
      open |-> IF has("open") THEN get("open") ELSE proto.open,
      close |-> IF has("close") THEN get("close") ELSE proto.close,
      relations |-> IF has("relations") THEN get("relations") ELSE proto.relations,
      opStrings |-> IF has("opStrings") THEN get("opStrings") ELSE proto.opStrings,
      inverse |-> IF has("inverse") THEN get("inverse") ELSE proto.inverse,
      autoApply |-> IF has("autoApply") THEN get("autoApply") ELSE proto.autoApply,
      exp |-> IF json.exp # <<>> THEN <<FromJSON(json.exp[1])>> ELSE <<>>,
      own |-> DOMAIN json.props
                \cup (IF json.hasChildNodes THEN {"childNodes"} ELSE {})
                \cup (IF json.exp # <<>> THEN {"exp"} ELSE {})]

RECURSIVE FromJSONOrder(_, _)
\* The order in which FromJSON makes the nodes, each named by its path from
\* the root (0 for exp, k for child k): FuncExp.fromJSON converts exp, then
\* AstNode.fromJSON the children, then AstObject.fromJSON makes the node
FromJSONOrder(json, path) ==
  (IF json.exp # <<>> THEN FromJSONOrder(json.exp[1], Append(path, 0)) ELSE <<>>)
    \o (IF ~json.hasChildNodes THEN <<>>
        ELSE Flatten([k \in 1..Len(json.childNodes) |->
                        FromJSONOrder(json.childNodes[k], Append(path, k))]))
    \o <<path>>

\* ------------------------------------------------------------------------
\* The inputs
\* ------------------------------------------------------------------------

\* the length, in lexemes, of the inputs that are enumerated exhaustively
MaxLen == 3

\* how many times a returned tree is stringified and converted again
MaxRenderings == 1

\* the lexemes of the enumerated inputs
Lexemes ==
  {<<"x">>, <<"2">>, <<"+">>, <<"-">>, <<"^">>, <<"(">>, <<")">>, <<",">>,
   <<"<">>, <<"=">>, <<"f">>, <<"s", "i", "n">>, <<"#">>}

\* every input of at most MaxLen lexemes
ShortInputs ==
  UNION {{Flatten(ls) : ls \in [1..n -> Lexemes]} : n \in 0..MaxLen}

\* a lo b hi c, for every pair of binary operators
BinaryOperators == {<<",">>, <<"=">>, <<"+">>, <<"-">>, <<"*">>, <<"/">>, <<"^">>}
TwoOperatorInputs ==
  {<<"a">> \o lo \o <<"b">> \o hi \o <<"c">> : lo, hi \in BinaryOperators}

\* chains of relations: x r1 y, x r1 y r2 z and x r1 y r2 z r3 w
RelationSymbols == {<<"<">>, <<"<", "=">>, <<">">>, <<">", "=">>, <<"=">>, <<LessEqual>>}
RelationInputs ==
  {<<"x", " ">> \o r1 \o <<" ", "y">> : r1 \in RelationSymbols}
    \cup {<<"x", " ">> \o r1 \o <<" ", "y", " ">> \o r2 \o <<" ", "z">> :
            r1, r2 \in RelationSymbols}
    \cup {<<"x">> \o r1 \o <<"y">> \o r2 \o <<"z">> \o r3 \o <<"w">> :
            r1, r2, r3 \in {<<"<">>, <<"<", "=">>, <<"=">>, <<">">>}}

\* a function of each argument count with an argument group of 0 to 3 items
FunctionNames == {<<"f">>, <<"h">>, <<"F">>, <<"s", "i", "n">>}
ArgumentLists == {<<>>, <<"x">>, <<"x", ",", "y">>, <<"x", ",", "y", ",", "z">>}
FunctionInputs ==
  {fn \o <<"(">> \o args \o <<")">> : fn \in FunctionNames, args \in ArgumentLists}

\* sums, products and powers of two functions named without an argument, and
\* sums of three
FormulaInputs ==
  {a \o op \o b : a, b \in FunctionNames, op \in {<<"+">>, <<" ">>, <<"^">>}}
    \cup {<<"f", "+", "F", "+", "h">>, <<"F", "+", "h", "+", "f">>,
          <<"F", "+", "F", "+", "h">>, <<"(", "f", "+", "F", ")", "(", "x", ")">>,
          <<"(", "F", "+", "h", ")", "(", "x", ",", "y", ")">>,
          <<"f", "+", "s", "i", "n", "'">>, <<"s", "i", "n", "'", "+", "f">>,
          <<"s", "i", "n", "'", "+", "s", "i", "n", "'">>}

\* a function or a variable to a power, with an argument
PowerBases == {<<"s", "i", "n">>, <<"f">>, <<"x">>}
Exponents == {<<"-", "1">>, <<"2">>, <<"-", "2">>, <<"1">>, <<"-", "x">>}
PowerInputs ==
  {base \o <<"^">> \o e \o arg :
     base \in PowerBases, e \in Exponents, arg \in {<<" ", "x">>, <<"(", "x", ")">>}}
    \cup {<<"(", "s", "i", "n", "^", "-", "1", ")", "^", "-", "1", " ", "x">>,
          <<"s", "i", "n", "^", "(", "-", "1", ")", " ", "x">>,
          <<"2", "s", "i", "n", "^", "-", "1", " ", "x", "^", "2">>}

\* comma lists in a group, in a nested group and outside of any group
ListInputs ==
  {<<"(", "a", ",", "b", ",", "c", ")">>,
   <<"(", "(", "a", ",", "b", ")", ",", "c", ")">>,
   <<"(", "a", ",", "(", "b", ",", "c", ")", ")">>,
   <<"(", "(", "a", ",", "b", ",", "c", ")", ")">>,
   <<"a", ",", "b", ",", "c">>,
   <<"(", "a", ",", "b", ")", ",", "c">>,
   <<"{", "a", ",", "b", ",", "c", "}">>,
   <<"<", "a", ",", "b", ",", "c", ">">>,
   <<"(", "a", "+", "b", ",", "c", ")">>,
   <<"(", "a", ",", "b", "=", "c", ")">>,
   <<"2", "(", "a", ",", "b", ",", "c", ")">>}

\* a close delimiter that meets an open delimiter of another kind, with or
\* without its own open delimiter under it
MismatchInputs ==
  {<<"(", "x", "}">>, <<"{", "x", ")">>, <<"{", "(", "x", "}">>,
   <<"(", "{", "x", ")">>, <<"{", "x", "+", "(", "y", "}">>,
   <<"(", "{", "x", "}", ")">>, <<"{", "(", "x", ")", "}">>,
   <<"f", "(", "x", "}">>, <<"{", "x", ")", "}">>, <<"(", "x", ")", ")">>,
   <<"(", "{", "x">>, <<"{", "x", "+", "y", "}">>, <<"(", "x", "+", "{", "y", "}", ")">>}

\* a function, a function expression or a function with its argument in
\* delimiters, alone, with an argument group or as an argument
AppliedInputs ==
  {<<"(", "f", ")", "(", "x", ")">>, <<"(", "x", ")", "(", "y", ")">>,
   <<"(", "2", ")", "(", "x", ")">>, <<"(", "h", ")", "(", "x", ",", "y", ")">>,
   <<"(", "(", "f", ")", ")", "(", "x", ")">>, <<"(", "f", ")", " ", "(", "x", ")">>,
   <<"{", "f", "}", "(", "x", ")">>, <<"(", "f", ")", "x">>,
   <<"(", "s", "i", "n", ")", "(", "x", ")">>,
   <<"(", "x", "+", "y", ")", "(", "z", ")">>,
   <<"(", "c", "o", "s", "(", "x", ")", ")">>,
   <<"s", "i", "n", "(", "c", "o", "s", "(", "x", ")", ")">>,
   <<"(", "s", "i", "n", " ", "x", ")">>, <<"s", "i", "n", "(", "s", "i", "n", " ", "x", ")">>,
   <<"(", "f", "(", "x", ")", ")">>, <<"f", "(", "f", "(", "x", ")", ")">>,
   <<"f", "(", "s", "i", "n", "(", "x", ")", ")">>,
   <<"s", "i", "n", "(", "f", "(", "x", ")", ")">>,
   <<"(", "s", "i", "n", "(", "x", ")", ")", "(", "y", ")">>,
   <<"(", "f", "(", "x", ")", ")", "(", "y", ")">>,
   <<"{", "s", "i", "n", "(", "x", ")", "}">>,
   <<"(", "s", "i", "n", "(", "x", ")", "+", "1", ")">>,
   <<"(", "s", "i", "n", "(", "x", ")", ",", "y", ")">>}

\* delimiters with nothing between them
EmptyInputs ==
  {<<>>, <<"(", ")">>, <<"{", "}">>, <<"f", "(", ")">>, <<"s", "i", "n", "(", ")">>,
   <<"(", "(", ")", ")">>, <<"(", "{", "}", ")">>, <<"f", "(", "{", "}", ")">>,
   <<"{", "}", "+", "x">>, <<"x", "(", ")">>, <<"x", "+", "(", ")">>,
   <<"{", "(", ")", "}">>}

\* a group of a function and of something that is no function, which an
\* argument group follows
MixedInputs ==
  {<<"(">> \o a \o op \o b \o <<")", "(", "y", ")">> :
     a, b \in {<<"f">>, <<"x">>, <<"2">>}, op \in {<<"+">>, <<",">>, <<" ">>}}
    \cup {<<"(", "f", "+", "x", "+", "f", ")", "(", "y", ")">>,
          <<"(", "x", "+", "f", "+", "f", ")", "(", "y", ")">>,
          <<"(", "f", "+", "f", "+", "x", ")", "(", "y", ")">>,
          <<"(", "f", "+", "f", ")", "(", "y", ")">>,
          <<"(", "(", "f", "+", "x", ")", "+", "f", ")", "(", "y", ")">>,
          <<"(", "f", "*", "x", "+", "f", ")", "(", "y", ")">>}

\* the expressions the documentation names, and others with a function
\* expression, a group, a vector, a set, a bar or a postfix operator
NamedInputs ==
  {<<"3", "+", "4", "*", "2">>,
   <<"(", "3", "+", "4", ")", "*", "2">>,
   <<"x", " ", "<", " ", "y", " ", "<", "=", " ", "z">>,
   <<"s", "i", "n", " ", "-", "x", "^", "2">>,
   <<"(", "x", ",", "y">>,
   <<"2", "(", "-", "3", ")">>,
   <<"x", "(", "-", "y", ")">>,
   <<"a", "-", "(", "b", "-", "c", ")">>,
   <<"a", "-", "(", "b", "+", "c", ")">>,
   <<"(", "a", "^", "b", ")", "^", "c">>,
   <<"a", "/", "(", "b", "/", "c", ")">>,
   <<"s", "i", "n", "^", "2", " ", "x">>,
   <<"f", "'", "(", "x", ")">>,
   <<"(", "f", "+", "g", ")", "(", "x", ")">>,
   <<"s", "i", "n", "^", "-", "1", " ", "x">>,
   <<"(", "x", ",", "y", ")">>,
   <<"<", "x", ",", "y", ">">>,
   <<"{", "x", ",", "y", "}">>,
   <<"|", "x", "|">>,
   <<"x", "!">>,
   <<"x", " ", "i", "n", " ", "{", "y", "}">>,
   <<" ", "x", MinusSign, "1", "0", " ">>,
   <<"s", "i", "n", " ", "<", "=", " ", "x">>}

\* an expression after an open delimiter that is never closed, or before a
\* close delimiter that was never opened, and the close delimiters alone
Bodies == {<<"x">>, <<"x", ",", "y">>, <<"x", "+", "y">>, <<"s", "i", "n", " ", "x">>}
OpenDelimiters == {<<"(">>, <<"{">>}
CloseDelimiters == {<<")">>, <<"}">>}
UnclosedInputs == {open \o body : open \in OpenDelimiters, body \in Bodies}
UnopenedInputs ==
  {body \o close : body \in Bodies, close \in CloseDelimiters} \cup CloseDelimiters

\* chains of four operands, operators met again after another operator, and
\* chains that end with an operator
ChainInputs ==
  {<<"a", "-", "b", "-", "c", "-", "d">>,
   <<"a", "^", "b", "^", "c", "^", "d">>,
   <<"a", "+", "b", "+", "c", "+", "d">>,
   <<"a", "+", "b", "*", "c", "+", "d">>,
   <<"a", "*", "b", "+", "c", "*", "d">>,
   <<"a", ",", "b", ",", "c", ",", "d">>,
   <<"a", " ", "b", " ", "c", " ", "d">>,
   <<"a", "/", "b", "/", "c", "/", "d">>,
   <<"a", "+", "b", "-", "c", "+", "d">>,
   <<"a", "-", "-", "b">>,
   <<"a", "!", "!">>,
   <<"a", "*", "b", "*", "c", "*", "d">>,
   <<"a", "+", "(", "b", "+", "c", ")">>,
   <<"a", "-", "b", "*", "c", "-", "d">>,
   <<"a", "+", "b", "+">>,
   <<"x", "!", "=", "y", "=", "z">>,
   <<"x", "=", "y", "!", "=", "z">>,
   <<"x", "!", "=", "y", "!", "=", "z">>,
   <<"a", ",", "b", ",">>,
   <<"a", "-", "b", "-">>}

\* expressions with an angle bracket: vectors, strict inequalities, and
\* angles left open or without an operand
AngleInputs ==
  {<<"<", "x", ",", "y", ">">>,
   <<"<", " ", "x", " ", ",", " ", "y", " ", ">">>,
   <<"<", "x", ">">>,
   <<"x", "<", "y", ">">>,
   <<"x", "<", "y", ",", "z", ">">>,
   <<"x", "<", "y", ",", "z", ">", "w">>,
   <<"2", "<", "x", ",", "y", ">">>,
   <<"x", "+", "<", "y", ",", "z", ">">>,
   <<"(", "<", "x", ",", "y", ">", ")">>,
   <<"<", "x", ",", "y", ">", "+", "z">>,
   <<"<", "<", "x", ",", "y", ">", ",", "z", ">">>,
   <<"<", "x">>,
   <<"<", "x", ",", "y">>,
   <<"x", "<">>,
   <<"(", "x", "<", ")">>,
   <<"(", "x", "<", "y", ")">>,
   <<"(", "x", "<", "y", ",", "z", ")">>,
   <<"(", "<", "x", ")">>,
   <<"x", "<", "y", "<", "z">>,
   <<"x", "<", "y", "+", "z">>,
   <<"x", "<", "-", "y", ">">>,
   <<"<">>}

Inputs == ShortInputs \cup TwoOperatorInputs \cup RelationInputs
            \cup FunctionInputs \cup UnclosedInputs \cup UnopenedInputs
            \cup NamedInputs \cup AngleInputs \cup ChainInputs \cup FormulaInputs
            \cup MixedInputs \cup PowerInputs \cup ListInputs \cup MismatchInputs
            \cup AppliedInputs \cup EmptyInputs

\* ------------------------------------------------------------------------
\* The parser as a state machine
\* ------------------------------------------------------------------------

VARIABLES
  parseTokens,  \* Parser.parseTokens: the ids of the registered token classes
  pattern,      \* Parser.pattern and Parser.map: null or the compiled parts
  string,       \* Parser.string: the trimmed input
  i,            \* Parser.i, 1-based
  stack,        \* Parser.stack: null or the items of the Stack
  heap,         \* the ApplyData objects of the tokens of this parse
  status,       \* where the caller of convert is
  error,        \* the Error convert threw
  ast,          \* what convert returned, if it returned
  renderings,   \* how many times the tree was stringified and converted again
  text,         \* the text of the last rendering
  first,        \* the tree that text is the rendering of
  json,         \* the result of ast.toJSON()
  copy,         \* the result of parser.fromJSON(json)
  order,        \* the order in which fromJSON made the nodes of copy
  pushes        \* the calls Stack.push made in the last step of convert

vars == <<tokenMap, parseTokens, pattern, string, i, stack, heap, status, error, ast,
          renderings, text, first, json, copy, order, pushes>>

NullStack == [isNull |-> TRUE, items |-> <<>>]
NoPattern == [isNull |-> TRUE, parts |-> <<>>]
NoError == [message |-> "", arg |-> <<>>]

\* the parser main.ts constructs: the catalogs are registered, nothing is
\* compiled and nothing has been converted
Init ==
  /\ tokenMap = Classes
  /\ parseTokens = MainTokens
  /\ pattern = NoPattern
  /\ string = <<>>
  /\ i = 1
  /\ stack = NullStack
  /\ heap = <<>>
  /\ status = "ready"
  /\ error = NoError
  /\ ast = <<>>
  /\ renderings = 0
  /\ text = <<>>
  /\ first = <<>>
  /\ json = <<>>
  /\ copy = <<>>
  /\ order = <<>>
  /\ pushes = <<>>

\* the parse state the handlers work on, from the variables
Current == [NewState EXCEPT !.stk = stack.items, !.heap = heap]

\* The variables after a step of convert that left the parse state s: an
\* error ends convert, and only Parser.error has set the stack to null
Continue(s) ==
  /\ heap' = s.heap
  /\ pushes' = s.log
  /\ IF Failed(s)
     THEN /\ status' = "thrown"
          /\ error' = [message |-> s.err, arg |-> s.errArg]
          /\ stack' = IF s.cleared THEN NullStack ELSE [isNull |-> FALSE, items |-> s.stk]
     ELSE /\ status' = "converting"
          /\ error' = NoError
          /\ stack' = [isNull |-> FALSE, items |-> s.stk]

\* convert pops the top item when the End token has been pushed: the items
\* are those of the stack before the pop
Popped(s) == Logged(s, "pop", TRUE, s.stk)

\* Parser.convert up to the push of the Start token; parts is what
\* getPattern compiles if the pattern is null
BeginWith(input, parts) ==
  /\ string' = Trim(input)
  /\ i' = 1
  /\ pattern' = IF pattern.isNull THEN [isNull |-> FALSE, parts |-> parts]
                ELSE pattern
  /\ Continue(Push(NewState, NewToken("Start", NULL, "undef")))
  /\ ast' = <<>>
  /\ json' = <<>>
  /\ copy' = <<>>
  /\ order' = <<>>
  /\ UNCHANGED <<tokenMap, parseTokens>>

\* the names of equal length are left in the order they were registered in
Begin(input) == BeginWith(input, GetPatternParts(parseTokens))

\* parser.convert(input) is called
Convert ==
  /\ status = "ready"
  /\ \E input \in Inputs : Begin(input)
  /\ UNCHANGED <<renderings, text, first>>

\* parser.convert(ast.toString()) is called for the tree convert returned
ConvertRendering ==
  /\ status = "returned"
  /\ renderings < MaxRenderings
  /\ ast # <<>>
  /\ ast[1] # Undefined
  /\ Begin(ToString(ast[1]))
  /\ renderings' = renderings + 1
  /\ text' = ToString(ast[1])
  /\ first' = ast

\* one turn of convert's loop: Parser.nextToken and the push of its token
NextToken ==
  /\ status = "converting"
  /\ i <= Len(string)
  /\ LET m == NextMatch(pattern.parts, parseTokens, string, i)
         t == CreateToken(Current, m.id, m.term)
     IN /\ i' = m.i
        /\ IF m.kind = "unexpected"
           THEN Continue(Throw(Current, "Unexpected character", <<string[m.i]>>))
           ELSE Continue(Push(t.s, t.tok))
  /\ UNCHANGED <<tokenMap, parseTokens, pattern, string, ast, renderings, text, first,
                 json, copy, order>>

\* the end of convert: the End token is pushed, the top item is popped, the
\* stack is dropped and the top item's tree is returned
Finish ==
  /\ status = "converting"
  /\ i > Len(string)
  /\ LET s == Push(Current, NewToken("End", NULL, "undef"))
     IN IF Failed(s)
        THEN Continue(s) /\ ast' = ast
        ELSE /\ heap' = s.heap
             /\ pushes' = Popped(s).log
             /\ stack' = NullStack
             /\ status' = "returned"
             /\ error' = NoError
             /\ ast' = <<Tree(Top(s))>>
  /\ UNCHANGED <<tokenMap, parseTokens, pattern, string, i, renderings, text, first,
                 json, copy, order>>

\* ast.toJSON() for the tree convert returned
MakeJSON ==
  /\ status = "returned"
  /\ ast # <<>>
  /\ ast[1] # Undefined
  /\ json = <<>>
  /\ json' = <<ToJSON(ast[1])>>
  /\ UNCHANGED <<tokenMap, parseTokens, pattern, string, i, stack, heap, status, error,
                 ast, renderings, text, first, copy, order, pushes>>

\* parser.fromJSON(json)
ReadJSON ==
  /\ json # <<>>
  /\ copy = <<>>
  /\ copy' = <<FromJSON(json[1])>>
  /\ order' = FromJSONOrder(json[1], <<>>)
  /\ UNCHANGED <<tokenMap, parseTokens, pattern, string, i, stack, heap, status, error,
                 ast, renderings, text, first, json, pushes>>

Next ==
  \/ Convert
  \/ ConvertRendering
  \/ NextToken
  \/ Finish
  \/ MakeJSON
  \/ ReadJSON

Spec == Init /\ [][Next]_vars

\* ------------------------------------------------------------------------
\* The registry of a parser that is used again and again
\* ------------------------------------------------------------------------

\* the registry of the parser: some of the Standard tokens and Inequalities
RegistryTokens ==
  <<"Plus", "Factorial", "Identifier", "Numeric", "FunctionLetters",
    "StrictInequalities", "WeakInequalities", "Equals", "NotEqual">>

\* the token lists addParseTokens is called with: Inequalities and Sets
TokenLists ==
  {<<"StrictInequalities", "WeakInequalities", "Equals", "NotEqual">>,
   <<"SetBraces", "In">>}

\* the ids removeParseToken is called with
RemovedIds == {"WeakInequalities", "NotEqual", "In"}

\* the expressions converted between the changes of the registry
RegistryInputs ==
  {<<"x", "<", "=", "y">>, <<"x", "!", "=", "y">>, <<"n", "!">>,
   <<"x", " ", "i", "n", " ", "f">>}

RECURSIVE AddedTokens(_, _)
\* parseTokens.set(id, ...) for each id of a list: Map.set leaves a key
\* that is in the map where it is and puts a new key last
AddedTokens(tokens, ids) ==
  IF ids = <<>> THEN tokens
  ELSE AddedTokens(IF \E k \in 1..Len(tokens) : tokens[k] = Head(ids)
                   THEN tokens ELSE Append(tokens, Head(ids)),
                   Tail(ids))

\* parseTokens.delete(id)
RemovedToken(tokens, id) ==
  LET other(x) == x # id IN SelectSeq(tokens, other)

RECURSIVE Orderings(_)
\* the sequences that hold each element of a set once
Orderings(S) ==
  IF S = {} THEN {<<>>}
  ELSE UNION {{<<x>> \o t : t \in Orderings(S \ {x})} : x \in S}

\* what Array.prototype.sort can return under getNamePattern's comparator.
\* The comparator answers -1 for two different names of one length whichever
\* comes first, so it is not a consistent comparison and the order of such
\* names is up to the engine; a longer name always sorts before a shorter.
SortOutcomes(names) ==
  LET longestFirst(q) ==
        \A j, k \in 1..Len(q) : j < k => Len(names[q[j]]) >= Len(names[q[k]])
  IN {[k \in 1..Len(names) |-> names[q[k]]] :
        q \in {q \in Orderings(1..Len(names)) : longestFirst(q)}}

\* one part of the pattern, with its names in each order the sort can give
PartOutcomes(part) ==
  IF part.type = "names"
  THEN {[part EXCEPT !.pattern.names = ns] : ns \in SortOutcomes(part.pattern.names)}
  ELSE {part}

RECURSIVE PartsOutcomes(_)
PartsOutcomes(parts) ==
  IF parts = <<>> THEN {<<>>}
  ELSE {<<h>> \o t : h \in PartOutcomes(Head(parts)), t \in PartsOutcomes(Tail(parts))}

\* what getPattern can compile from a registry
Compilations(tokens) == PartsOutcomes(GetPatternParts(tokens))

RegistryInit ==
  /\ tokenMap = Classes
  /\ parseTokens = RegistryTokens
  /\ pattern = NoPattern
  /\ string = <<>>
  /\ i = 1
  /\ stack = NullStack
  /\ heap = <<>>
  /\ status = "ready"
  /\ error = NoError
  /\ ast = <<>>
  /\ renderings = 0
  /\ text = <<>>
  /\ first = <<>>
  /\ json = <<>>
  /\ copy = <<>>
  /\ order = <<>>
  /\ pushes = <<>>

\* parser.addParseTokens(tokens), between two calls of convert
AddParseTokens ==
  /\ status # "converting"
  /\ \E ids \in TokenLists : parseTokens' = AddedTokens(parseTokens, ids)
  /\ pattern' = NoPattern
  /\ UNCHANGED <<tokenMap, string, i, stack, heap, status, error, ast, renderings,
                 text, first, json, copy, order, pushes>>

\* a removeParseToken that leaves the compiled pattern in place
RemoveParseTokenKeepsPattern ==
  /\ status # "converting"
  /\ \E id \in RemovedIds : parseTokens' = RemovedToken(parseTokens, id)
  /\ UNCHANGED <<tokenMap, pattern, string, i, stack, heap, status, error, ast,
                 renderings, text, first, json, copy, order, pushes>>

\* parser.removeParseToken(id), between two calls of convert
RemoveParseToken ==
  /\ status # "converting"
  /\ \E id \in RemovedIds : parseTokens' = RemovedToken(parseTokens, id)
  /\ pattern' = NoPattern
  /\ UNCHANGED <<tokenMap, string, i, stack, heap, status, error, ast, renderings,
                 text, first, json, copy, order, pushes>>

\* parser.convert(input) is called, for the first time or again
ConvertAgain ==
  /\ status # "converting"
  /\ \E input \in RegistryInputs :
       \E parts \in IF pattern.isNull THEN Compilations(parseTokens) ELSE {<<>>} :
         BeginWith(input, parts)
  /\ UNCHANGED <<renderings, text, first>>

RegistryNext ==
  \/ AddParseTokens
  \/ RemoveParseToken
  \/ ConvertAgain
  \/ NextToken
  \/ Finish

RegistrySpec == RegistryInit /\ [][RegistryNext]_vars

\* ------------------------------------------------------------------------
\* Properties
\* ------------------------------------------------------------------------

\* convert has ended, with a tree or with an error
Ended == status \in {"returned", "thrown"}

RECURSIVE Nodes(_)
\* the nodes of a tree
Nodes(node) ==
  {node} \cup UNION {Nodes(node.childNodes[k]) : k \in 1..Len(node.childNodes)}
         \cup (IF node.exp # <<>> THEN Nodes(node.exp[1]) ELSE {})

RECURSIVE Ungroup(_)
\* a node without the parentheses that only group one expression
Ungroup(node) ==
  IF node.kind = "Group" /\ node.open = <<"(">> /\ Len(node.childNodes) = 1
  THEN Ungroup(node.childNodes[1]) ELSE node

RECURSIVE Equivalent(_, _)
\* the same operators applied to the same operands in the same grouping
Equivalent(a, b) ==
  LET m == Ungroup(a)
      n == Ungroup(b)
  IN /\ m.kind = n.kind
     /\ m.isNum = n.isNum /\ m.num = n.num /\ m.value = n.value
     /\ m.relations = n.relations
     /\ Len(m.childNodes) = Len(n.childNodes)
     /\ \A k \in 1..Len(m.childNodes) : Equivalent(m.childNodes[k], n.childNodes[k])
     /\ Len(m.exp) = Len(n.exp)
     /\ (m.exp # <<>> => Equivalent(m.exp[1], n.exp[1]))

RECURSIVE SameShape(_, _)
\* nodes of the same kinds in the same places
SameShape(a, b) ==
  /\ a.kind = b.kind
  /\ Len(a.childNodes) = Len(b.childNodes)
  /\ \A k \in 1..Len(a.childNodes) : SameShape(a.childNodes[k], b.childNodes[k])
  /\ Len(a.exp) = Len(b.exp)
  /\ (a.exp # <<>> => SameShape(a.exp[1], b.exp[1]))

\* path p is a proper prefix of path q: p names an ancestor of q's node
IsAncestor(p, q) == Len(p) < Len(q) /\ SubSeq(q, 1, Len(p)) = p

\* C1: whenever convert has aborted with an error, of whatever kind, no AST
\* was returned and the parse stack is discarded: parser.stack is null.
C1_ErrorDiscardsStack ==
  status = "thrown" => (ast = <<>> /\ stack.isNull)

\* C2: for every expression s that convert accepts, with t1 the text of
\* convert(s).toString(), convert(t1) succeeds and its tree's toString()
\* is t1 again.
C2_RenderingIsIdempotent ==
  (renderings >= 1 /\ Ended) =>
    (status = "returned" /\ ast[1] # Undefined /\ ToString(ast[1]) = text)

\* C3: for every expression s that convert accepts, convert of the text of
\* convert(s).toString() returns a tree equivalent to convert(s): the same
\* operators applied to the same operands in the same grouping.
C3_RenderingRoundTrips ==
  (renderings >= 1 /\ Ended) =>
    (status = "returned" /\ ast[1] # Undefined /\ Equivalent(first[1], ast[1]))

\* C4: for every AST a that convert returns, parser.fromJSON(a.toJSON()) is a
\* tree of the same kinds and shape whose toString() equals a.toString(), and
\* fromJSON makes the children and the exp of a node before the node.
C4_JSONRoundTrips ==
  copy # <<>> =>
    /\ SameShape(copy[1], ast[1])
    /\ ToString(copy[1]) = ToString(ast[1])
    /\ Len(order) = Cardinality({p \in {order[k] : k \in 1..Len(order)} : TRUE})
    /\ \A j, k \in 1..Len(order) : IsAncestor(order[k], order[j]) => j < k

\* C4 at work: a function expression with its exp and an argument has been
\* read back from JSON
C4_Witness ==
  /\ copy # <<>>
  /\ copy[1].kind = "FuncExp"
  /\ copy[1].exp # <<>>
  /\ copy[1].childNodes # <<>>
  /\ Len(order) >= 4

\* the class of a binary operator of the catalog, and its precedence
OperatorClass(symbol) ==
  CHOOSE cls \in {"List", "Equals", "Plus", "Minus", "Multiply", "Divide", "Power"} :
    \E k \in 1..Len(tokenMap[cls].token) : tokenMap[cls].token[k] = symbol
PrecedenceOf(symbol) == tokenMap[OperatorClass(symbol)].precedence

\* a Name node with a one-letter name, a Num node with a value
IsName(node, letter) == node.kind = "Name" /\ node.value = <<letter>>
IsNumber(node, n) == node.kind = "Num" /\ node.isNum /\ node.num = n

\* a binary operator node for a symbol, with two children
IsBinary(node, symbol) ==
  /\ node.kind \in {"Bop", "Rel"}
  /\ node.value = symbol
  /\ Len(node.childNodes) = 2

\* symbol[a, b] with Name leaves a and b
IsBinaryOfNames(node, symbol, a, b) ==
  /\ IsBinary(node, symbol)
  /\ IsName(node.childNodes[1], a)
  /\ IsName(node.childNodes[2], b)

\* convert has returned a tree
Returned == status = "returned" /\ ast # <<>> /\ ast[1] # Undefined

\* C5: for binary operators lo and hi with precedence(hi) > precedence(lo),
\* "a lo b hi c" parses to lo[a, hi[b, c]] and "a hi b lo c" parses to
\* lo[hi[a, b], c]; "3+4*2" parses to +[3, *[4, 2]] and "(3+4)*2" to a *
\* node whose first child is the + node.
C5_PrecedenceDecidesGrouping ==
  /\ \A lo, hi \in BinaryOperators :
       PrecedenceOf(hi) > PrecedenceOf(lo) =>
         /\ (Ended /\ string = <<"a">> \o lo \o <<"b">> \o hi \o <<"c">>) =>
              /\ Returned
              /\ IsBinary(ast[1], lo)
              /\ IsName(ast[1].childNodes[1], "a")
              /\ IsBinaryOfNames(ast[1].childNodes[2], hi, "b", "c")
         /\ (Ended /\ string = <<"a">> \o hi \o <<"b">> \o lo \o <<"c">>) =>
              /\ Returned
              /\ IsBinary(ast[1], lo)
              /\ IsBinaryOfNames(ast[1].childNodes[1], hi, "a", "b")
              /\ IsName(ast[1].childNodes[2], "c")
  /\ (Ended /\ string = <<"3", "+", "4", "*", "2">>) =>
       /\ Returned
       /\ IsBinary(ast[1], <<"+">>)
       /\ IsNumber(ast[1].childNodes[1], 3)
       /\ IsBinary(ast[1].childNodes[2], <<"*">>)
       /\ IsNumber(ast[1].childNodes[2].childNodes[1], 4)
       /\ IsNumber(ast[1].childNodes[2].childNodes[2], 2)
  /\ (Ended /\ string = <<"(", "3", "+", "4", ")", "*", "2">>) =>
       /\ Returned
       /\ IsBinary(ast[1], <<"*">>)
       /\ IsBinary(ast[1].childNodes[1], <<"+">>)
       /\ IsNumber(ast[1].childNodes[2], 2)

\* C5 at work: "a+b^c" was parsed, the + node on top
C5_Witness ==
  /\ Returned
  /\ string = <<"a", "+", "b", "^", "c">>
  /\ IsBinary(ast[1], <<"+">>)
  /\ IsBinaryOfNames(ast[1].childNodes[2], <<"^">>, "b", "c")

\* the nodes that have a precedence: the operators and the function
\* applications; names, numbers and groups have none
HasDefinedPrecedence(node) ==
  node.kind \notin {"Name", "Num", "FuncName", "StackGroup", "Group", "Vector", "Set"}

\* the text of a child inside its parent: in parentheses iff the child has a
\* precedence that is lower than the parent's, or equal when the parent
\* includes parentheses on equal precedence
ChildText(parent, child) ==
  IF /\ HasDefinedPrecedence(child)
     /\ \/ child.precedence < parent.precedence
        \/ (parent.equalParens /\ child.precedence = parent.precedence)
  THEN <<"(">> \o ToString(child) \o <<")">>
  ELSE ToString(child)

\* C6 as stated: stringifying the parse of "3+4*2" returns exactly "3+4*2".
C6_ExactText ==
  (Ended /\ string = <<"3", "+", "4", "*", "2">>) =>
    (Returned /\ ToString(ast[1]) = <<"3", "+", "4", "*", "2">>)

\* C6, amended: the parse of "3+4*2" stringifies as "3 + 4 * 2" and that of
\* "(3+4)*2" as "(3 + 4) * 2", a binary operator without an output string
\* of its own being written with a space on each side; and in every tree a
\* binary or unary operator node writes a child in parentheses iff the child
\* has a precedence that is lower than the node's, or equal to it when the
\* node includes parentheses on equal precedence.
C6_Parentheses ==
  /\ (Ended /\ string = <<"3", "+", "4", "*", "2">>) =>
       (Returned /\ ToString(ast[1]) = <<"3", " ", "+", " ", "4", " ", "*", " ", "2">>)
  /\ (Ended /\ string = <<"(", "3", "+", "4", ")", "*", "2">>) =>
       (Returned /\ ToString(ast[1])
                      = <<"(", "3", " ", "+", " ", "4", ")", " ", "*", " ", "2">>)
  /\ Returned =>
       \A node \in Nodes(ast[1]) :
         /\ node.kind \in {"Bop", "Rel"} =>
              ToString(node) =
                Join([k \in 1..Len(node.childNodes) |->
                        ChildText(node, node.childNodes[k])],
                     IF node.opString # NULL THEN node.opString
                     ELSE <<" ">> \o node.value \o <<" ">>)
         /\ (node.kind = "Uop" /\ Len(node.childNodes) = 1) =>
              ToString(node) =
                IF node.associativity = "left"
                THEN node.value \o ChildText(node, node.childNodes[1])
                ELSE ChildText(node, node.childNodes[1]) \o node.value

\* C6 at work: the sum in "(3+4)*2" was written in parentheses
C6_Witness ==
  /\ Returned
  /\ string = <<"(", "3", "+", "4", ")", "*", "2">>
  /\ ToString(ast[1]) = <<"(", "3", " ", "+", " ", "4", ")", " ", "*", " ", "2">>

\* the relation symbol as the parser writes it
Normalized(r) == IF r = <<LessEqual>> THEN <<"<", "=">> ELSE r

\* a chain of relations can fuse when the relations other than = all point
\* the same way
Fusable(chain) ==
  Cardinality({Head(Normalized(chain[k])) :
                 k \in {j \in 1..Len(chain) : chain[j] # <<"=">>}}) <= 1

\* the text of a chain over the operands x, y, z, w, with a separator
ChainText(chain, sep) ==
  LET operands == <<"x", "y", "z", "w">>
  IN <<"x">> \o Flatten([k \in 1..Len(chain) |->
                           sep \o chain[k] \o sep \o <<operands[k + 1]>>])

\* a MultiRel node over the first operands with the relations of the chain
IsChain(node, chain) ==
  LET operands == <<"x", "y", "z", "w">>
  IN /\ node.kind = "MultiRel"
     /\ Len(node.childNodes) = Len(chain) + 1
     /\ \A k \in 1..Len(node.childNodes) : IsName(node.childNodes[k], operands[k])
     /\ node.relations = [k \in 1..Len(chain) |-> Normalized(chain[k])]

C8_AutoApplyTakesUnary ==
  /\ (Ended /\ string = <<"s", "i", "n", " ", "-", "x", "^", "2">>) =>
       /\ Returned
       /\ ast[1].kind = "FuncApply"
       /\ ast[1].value = <<"s", "i", "n">>
       /\ ast[1].autoApply
       /\ Len(ast[1].childNodes) = 1
       /\ ast[1].childNodes[1].kind = "Uop"
       /\ ast[1].childNodes[1].value = <<"-">>
       /\ Len(ast[1].childNodes[1].childNodes) = 1
       /\ IsBinary(ast[1].childNodes[1].childNodes[1], <<"^">>)
       /\ IsName(ast[1].childNodes[1].childNodes[1].childNodes[1], "x")
       /\ IsNumber(ast[1].childNodes[1].childNodes[1].childNodes[2], 2)
       /\ ToString(ast[1]) = <<"s", "i", "n", "(", "-", "x", "^", "2", ")">>
  /\ \A sign \in {"+", "-"} :
       (Ended /\ string = <<"s", "i", "n", sign, "x">>) =>
         /\ Returned
         /\ ast[1].kind = "FuncApply"
         /\ ast[1].value = <<"s", "i", "n">>
         /\ ast[1].autoApply
         /\ Len(ast[1].childNodes) = 1
         /\ ast[1].childNodes[1].kind = "Uop"
         /\ ast[1].childNodes[1].value = <<sign>>
         /\ Len(ast[1].childNodes[1].childNodes) = 1
         /\ IsName(ast[1].childNodes[1].childNodes[1], "x")

\* C8 at work: "sin -x^2" was parsed to the application of sin
C8_Witness ==
  /\ Returned
  /\ string = <<"s", "i", "n", " ", "-", "x", "^", "2">>
  /\ ast[1].kind = "FuncApply"
  /\ ast[1].childNodes[1].kind = "Uop"

\* the number of arguments the function of a name expects
ExpectedArguments(fn) ==
  tokenMap[CHOOSE cls \in {"FunctionLetters", "Funcs2", "Funcs3", "Trig"} :
            \E k \in 1..Len(tokenMap[cls].token) : tokenMap[cls].token[k] = fn].args

\* the number of items of a list of one-letter arguments
ArgumentCount(args) == (Len(args) + 1) \div 2

\* what C9 says of the function fn followed by the group of args
CountDecides(fn, args) ==
  IF ExpectedArguments(fn) \in {Infinity, ArgumentCount(args)}
  THEN /\ Returned
       /\ ast[1].kind = "FuncApply"
       /\ ast[1].value = fn
       /\ Len(ast[1].childNodes) = ArgumentCount(args)
  ELSE /\ status = "thrown"
       /\ error.message = "Wrong number of arguments for"
       /\ ast = <<>>

IsVectorOfNames(node, a, b) ==
  /\ node.kind = "Vector"
  /\ Len(node.childNodes) = 2
  /\ IsName(node.childNodes[1], a)
  /\ IsName(node.childNodes[2], b)

\* the expression "<x,y>", with and without spaces
VectorTexts == {<<"<", "x", ",", "y", ">">>,
                <<"<", " ", "x", " ", ",", " ", "y", " ", ">">>}

\* C11: with the angle look-ahead and the inequalities both registered,
\* "<x,y>" parses to a single vector group with exactly the components x and
\* y in order: never a relation node, never a missing-operand error.
C11_AngleVector ==
  (Ended /\ string \in VectorTexts) =>
    /\ Returned
    /\ IsVectorOfNames(ast[1], "x", "y")
    /\ \A n \in Nodes(ast[1]) : n.kind \notin {"Rel", "MultiRel"}

\* C11 at work: "<x,y>" was converted while Angle and the inequalities are
\* both in the registry, and the vector came back
C11_Witness ==
  /\ Returned
  /\ string = <<"<", "x", ",", "y", ">">>
  /\ \E j, k \in 1..Len(parseTokens) :
       /\ parseTokens[j] = "InequalitiesWithVectors"
       /\ parseTokens[k] = "StrictInequalities"
  /\ ast[1].kind = "Vector"

\* the calls of Stack.push in the last step, and for the call at k what was
\* done for it: the records at its depth up to the next call at that depth
PushCalls == {k \in 1..Len(pushes) : pushes[k].ev = "push"}
EventsOf(k) ==
  {j \in (k + 1)..Len(pushes) :
     /\ pushes[j].d = pushes[k].d
     /\ \A m \in (k + 1)..j : ~(pushes[m].ev = "push" /\ pushes[m].d = pushes[k].d)}

\* the items put on the stack at p are those the handler returned at h, in
\* the order returned, on top of the stack the handler left
PlacedFrom(p, h) ==
  /\ h < p
  /\ pushes[p].items = pushes[h].items
  /\ pushes[p].size = pushes[h].size + Len(pushes[h].items)

\* the protocol of the call of Stack.push at k
FollowsProtocol(k) ==
  LET own == EventsOf(k)
      F == {j \in own : pushes[j].ev = "followedBy"}
      W == {j \in own : pushes[j].ev = "follows"}
      P == {j \in own : pushes[j].ev = "placed"}
  IN /\ Cardinality(F) <= 1 /\ Cardinality(W) <= 1 /\ Cardinality(P) <= 1
     /\ (pushes[k].flag /\ W \cup P # {}) =>
          (F # {} /\ \A f \in F : \A j \in W \cup P : f < j)
     /\ ~pushes[k].flag => F = {}
     /\ \A w \in W : \A f \in F : ~pushes[f].flag /\ f < w
     /\ \A p \in P :
          IF W # {} THEN \A w \in W : PlacedFrom(p, w)
          ELSE F # {} /\ \A f \in F : pushes[f].flag /\ PlacedFrom(p, f)
     /\ status # "thrown" => P # {}

\* C12: Stack.push(t) on a non-empty stack consults top.followedBy(t) first;
\* any non-null result, the empty list included, is the complete list of the
\* items put on the stack, and t.follows is then not called; only when
\* followedBy returns null, or the stack is empty, is t.follows(top) called
\* and its result used. The returned items are appended in returned order.
C12_PushProtocol == \A k \in PushCalls : FollowsProtocol(k)

\* C12 at work: in one step a top item has handled a token with the empty
\* list, and another push went on to follows after a null and put two items
C12_Witness ==
  /\ \E j \in 1..Len(pushes) :
       pushes[j].ev = "followedBy" /\ pushes[j].flag /\ pushes[j].items = <<>>
  /\ \E j, k \in 1..Len(pushes) :
       /\ pushes[j].ev = "followedBy" /\ ~pushes[j].flag
       /\ pushes[k].ev = "placed" /\ Len(pushes[k].items) = 2

\* the UTF-16 code unit of a character of the registered names
CodeUnit(c) ==
  CASE c = "!" -> 33 [] c = "<" -> 60 [] c = "=" -> 61 [] c = ">" -> 62
    [] c = "i" -> 105 [] c = "n" -> 110

\* a < b for two strings of one length, as JavaScript compares strings
StringLess(a, b) ==
  \E k \in 1..Len(a) :
    /\ SubSeq(a, 1, k - 1) = SubSeq(b, 1, k - 1)
    /\ CodeUnit(a[k]) < CodeUnit(b[k])

\* the parts of the compiled pattern are in ascending priority, and at one
\* priority the names come before the patterns
PartsByPriority(parts) ==
  \A j, k \in 1..Len(parts) :
    j < k => /\ parts[j].priority <= parts[k].priority
             /\ (parts[j].priority = parts[k].priority =>
                   ~(parts[j].type = "pattern" /\ parts[k].type = "names"))

\* the names of a part are longest first
LongestFirst(part) ==
  \A j, k \in 1..Len(part.pattern.names) :
    j < k => Len(part.pattern.names[j]) >= Len(part.pattern.names[k])

\* the names of one length are in lexicographic order
EqualLengthLexicographic(part) ==
  \A j, k \in 1..Len(part.pattern.names) :
    (j < k /\ Len(part.pattern.names[j]) = Len(part.pattern.names[k])) =>
      StringLess(part.pattern.names[j], part.pattern.names[k])

\* the registered names of a priority
RegisteredNames(priority) ==
  LET names == NamesAt(parseTokens, priority)
  IN {names[k] : k \in 1..Len(names)}

\* at a text that starts with the longer of two names of a part, one the
\* prefix of the other, the part matches the longer
LongerNameWins(part) ==
  \A a, b \in RegisteredNames(part.priority) :
    (Len(a) < Len(b) /\ SubSeq(b, 1, Len(a)) = a) => PartMatch(part, b, 1) = b

\* C13: the combined matcher tries the token definitions in ascending
\* priority; within one priority every literal name is tried before any raw
\* pattern, and the names are ordered longest first and, among names of
\* equal length, lexicographically, so that a longer registered name always
\* wins over a shorter registered name that is its prefix.
C13_MatcherOrder ==
  ~pattern.isNull =>
    /\ PartsByPriority(pattern.parts)
    /\ \A n \in 1..Len(pattern.parts) :
         pattern.parts[n].type = "names" =>
           /\ LongestFirst(pattern.parts[n])
           /\ EqualLengthLexicographic(pattern.parts[n])
           /\ LongerNameWins(pattern.parts[n])

\* the compiled pattern is one that getPattern compiles from the registry
PatternIsCurrent ==
  ~pattern.isNull => pattern.parts \in Compilations(parseTokens)

\* a step changes the registry only between parses and then leaves no
\* compiled pattern; a pattern is compiled only when a convert starts without
\* one, from the registry of that moment; a compiled pattern is kept by the
\* start of a convert and by every step of the parse
PatternStep ==
  /\ parseTokens' # parseTokens => (status # "converting" /\ pattern'.isNull)
  /\ (pattern' # pattern /\ ~pattern'.isNull) =>
       /\ pattern.isNull
       /\ status # "converting" /\ status' = "converting"
       /\ pattern'.parts \in Compilations(parseTokens)
  /\ (status # "converting" /\ status' = "converting") =>
       /\ ~pattern'.isNull
       /\ ~pattern.isNull => pattern' = pattern
  /\ status = "converting" => pattern' = pattern

\* C14: after any sequence of addParseTokens and removeParseToken calls
\* interleaved with convert calls on one parser, every convert tokenizes with
\* a matcher compiled from the registry as it stands when that convert
\* starts: each change of the registry invalidates the compiled pattern, the
\* next convert compiles it again, and it is neither compiled again nor
\* changed while a parse is running or between parses with the registry
\* unchanged.
C14_MatcherIsCurrent ==
  /\ [](status = "converting" => (~pattern.isNull /\ PatternIsCurrent))
  /\ []PatternIsCurrent
  /\ [][PatternStep]_vars

\* C14 at work: WeakInequalities was removed from the registry, and "x<=y"
\* is being tokenized by a pattern without the name "<="
C14_Witness ==
  /\ status = "converting"
  /\ string = <<"x", "<", "=", "y">>
  /\ i = 3
  /\ \A k \in 1..Len(parseTokens) : parseTokens[k] # "WeakInequalities"
  /\ ~pattern.isNull
  /\ \A n \in 1..Len(pattern.parts) :
       \A k \in 1..Len(pattern.parts[n].pattern.names) :
         pattern.parts[n].pattern.names[k] # <<"<", "=">>

\* the associativity of a binary operator of the catalog, and whether two
\* operators in a row fuse into one node
AssociativityOf(symbol) == tokenMap[OperatorClass(symbol)].associativity
TieFuses(lo, hi) == lo = hi /\ tokenMap[OperatorClass(hi)].combine

\* symbol[symbol[a, b], c] and symbol[a, symbol[b, c]] with Name leaves
IsLeftFold(node, lo, hi, a, b, c) ==
  /\ IsBinary(node, hi)
  /\ IsBinaryOfNames(node.childNodes[1], lo, a, b)
  /\ IsName(node.childNodes[2], c)
IsRightFold(node, lo, hi, a, b, c) ==
  /\ IsBinary(node, lo)
  /\ IsName(node.childNodes[1], a)
  /\ IsBinaryOfNames(node.childNodes[2], hi, b, c)

\* C15: between operators of equal precedence the associativity decides: a
\* left-associative incoming operator makes the earlier operator reduce
\* first ("a-b-c" is -[-[a, b], c]), a right-associative one leaves the
\* earlier operator open ("a^b^c" is ^[a, ^[b, c]]).
C15_TiesFollowAssociativity ==
  /\ \A lo, hi \in BinaryOperators :
       (PrecedenceOf(lo) = PrecedenceOf(hi) /\ ~TieFuses(lo, hi)) =>
         ((Ended /\ string = <<"a">> \o lo \o <<"b">> \o hi \o <<"c">>) =>
            /\ Returned
            /\ IF AssociativityOf(hi) = "left"
               THEN IsLeftFold(ast[1], lo, hi, "a", "b", "c")
               ELSE IsRightFold(ast[1], lo, hi, "a", "b", "c"))
  /\ (Ended /\ string = <<"a", "-", "b", "-", "c", "-", "d">>) =>
       /\ Returned
       /\ IsBinary(ast[1], <<"-">>)
       /\ IsLeftFold(ast[1].childNodes[1], <<"-">>, <<"-">>, "a", "b", "c")
       /\ IsName(ast[1].childNodes[2], "d")
  /\ (Ended /\ string = <<"a", "^", "b", "^", "c", "^", "d">>) =>
       /\ Returned
       /\ IsBinary(ast[1], <<"^">>)
       /\ IsName(ast[1].childNodes[1], "a")
       /\ IsRightFold(ast[1].childNodes[2], <<"^">>, <<"^">>, "b", "c", "d")

\* C15 at work: "a^b^c" came back as a right fold and the operators of
\* "a-b-c" are of one precedence, left-associative and do not fuse
C15_Witness ==
  /\ Returned
  /\ string = <<"a", "^", "b", "^", "c">>
  /\ IsRightFold(ast[1], <<"^">>, <<"^">>, "a", "b", "c")
  /\ AssociativityOf(<<"^">>) = "right"
  /\ AssociativityOf(<<"-">>) = "left" /\ ~TieFuses(<<"-">>, <<"-">>)

\* the binary operators that combine, and those that do not
CombinableOperators == {op \in BinaryOperators \ {<<"=">>} : tokenMap[OperatorClass(op)].combine}
OtherOperators == {op \in BinaryOperators \ {<<"=">>} : ~tokenMap[OperatorClass(op)].combine}

\* a Bop node for the symbol whose children are the Name leaves of a list
IsFused(node, symbol, letters) ==
  /\ node.kind = "Bop"
  /\ node.value = symbol
  /\ Len(node.childNodes) = Len(letters)
  /\ \A k \in 1..Len(letters) : IsName(node.childNodes[k], letters[k])

\* the letters joined by a symbol: a op b op c ...
Joined(letters, symbol) ==
  Flatten([k \in 1..Len(letters) |->
             IF k = 1 THEN <<letters[k]>> ELSE symbol \o <<letters[k]>>])

\* the input has no delimiter, so all its operators are at one nesting level
OneLevel(str) ==
  \A k \in 1..Len(str) : str[k] \notin {"(", ")", "{", "}", "<", ">", "|"}

\* C16: the same combinable binary operator fuses: n operands joined by n-1
\* occurrences of it at one nesting level ("a+b+c+d", and also "a+b*c+d")
\* give a single node with n children in input order, never a nested
\* left-leaning chain; operators that do not combine (binary minus,
\* division) and unary operators never fuse.
C16_CombinableOperatorsFuse ==
  /\ \A op \in CombinableOperators :
       \A letters \in {<<"a", "b", "c">>, <<"a", "b", "c", "d">>} :
         (Ended /\ string = Joined(letters, op)) =>
           (Returned /\ IsFused(ast[1], op, letters))
  /\ (Ended /\ string = <<"a", "+", "b", "*", "c", "+", "d">>) =>
       /\ Returned
       /\ ast[1].kind = "Bop" /\ ast[1].value = <<"+">>
       /\ Len(ast[1].childNodes) = 3
       /\ IsName(ast[1].childNodes[1], "a")
       /\ IsBinaryOfNames(ast[1].childNodes[2], <<"*">>, "b", "c")
       /\ IsName(ast[1].childNodes[3], "d")
  /\ (Returned /\ renderings = 0 /\ OneLevel(string)) =>
       \A n \in Nodes(ast[1]) :
         (n.kind = "Bop" /\ n.value \in CombinableOperators) =>
           \A k \in 1..Len(n.childNodes) :
             ~(n.childNodes[k].kind = "Bop" /\ n.childNodes[k].value = n.value)
  /\ Returned =>
       \A n \in Nodes(ast[1]) :
         /\ (n.kind = "Bop" /\ n.value \in OtherOperators) => Len(n.childNodes) = 2
         /\ n.kind = "Uop" => Len(n.childNodes) = 1
  /\ \A op \in OtherOperators :
       (Ended /\ string = Joined(<<"a", "b", "c">>, op) /\ AssociativityOf(op) = "left") =>
         (Returned /\ IsLeftFold(ast[1], op, op, "a", "b", "c"))

\* C16 at work: "a+b*c+d" came back as one + node with three children, and
\* "+" combines while "-" and "/" do not
C16_Witness ==
  /\ Returned
  /\ string = <<"a", "+", "b", "*", "c", "+", "d">>
  /\ Len(ast[1].childNodes) = 3
  /\ <<"+">> \in CombinableOperators
  /\ {<<"-">>, <<"/">>} \subseteq OtherOperators

\* the messages of a missing operand
MissingOperandMessages ==
  {"Missing operand before", "Missing operand following", "Missing operand after"}

\* the class is an operator that is binary only
IsBinaryOnly(cls) ==
  Isa("Operator", [cls |-> cls]) /\ tokenMap[cls].type = "binary"

\* the call of Stack.push at k went on to token.follows(top)
AskedToFollow(k) == \E j \in EventsOf(k) : pushes[j].ev = "followedBy" /\ ~pushes[j].flag

\* the input ends with an operator that needs an operand after it
TrailingOperator(str) ==
  str # <<>> /\ str[Len(str)] \in {"+", "-", "*", "/", "^", ",", "="}

\* the last step of convert was the push of the End token
EndWasPushed == pushes # <<>> /\ pushes[1].items[1].cls = "End"

\* C17: an operator lacking a required operand always aborts with a
\* missing-operand error: a binary-only operator pushed when the top of the
\* stack is not an operand fails with "Missing operand before"; an operator
\* still open when the end of the input (or its group) closes, without the
\* operand it needs after it, fails with "Missing operand following"; so no
\* returned AST has a binary operator node with fewer than 2 children or a
\* unary operator node without its operand.
C17_MissingOperandAborts ==
  /\ \A k \in PushCalls :
       (/\ pushes[k].flag
        /\ IsBinaryOnly(pushes[k].items[1].cls)
        /\ ~Isa("Operand", pushes[k].items[2])
        /\ AskedToFollow(k)) =>
         /\ status = "thrown"
         /\ error.message = "Missing operand before"
         /\ error.arg = pushes[k].items[1].value
  /\ (Ended /\ EndWasPushed /\ TrailingOperator(string)) =>
       (status = "thrown" /\ error.message \in MissingOperandMessages)
  /\ Returned =>
       \A n \in Nodes(ast[1]) :
         /\ n.kind \in {"Bop", "Rel", "MultiRel"} => Len(n.childNodes) >= 2
         /\ n.kind = "Uop" => Len(n.childNodes) = 1

\* the steps of LookAhead.unravel in the last step of convert; for the one at
\* u, where it ended (0 while it has not) and the calls of Stack.push it made
Unravels == {u \in 1..Len(pushes) : pushes[u].ev = "unravel"}
UnravelEnds(u) ==
  {e \in (u + 1)..Len(pushes) :
     pushes[e].ev = "unravelled" /\ pushes[e].d = pushes[u].d}
UnravelEnd(u) ==
  IF UnravelEnds(u) = {} THEN 0
  ELSE CHOOSE e \in UnravelEnds(u) : \A f \in UnravelEnds(u) : e <= f
UnravelCalls(u) ==
  AscendingSeq({j \in (u + 1)..Len(pushes) :
                  /\ UnravelEnd(u) # 0 => j < UnravelEnd(u)
                  /\ pushes[j].ev = "push"
                  /\ pushes[j].d = pushes[u].d + 1})

\* the class of the token a look-ahead unravels to
ReplacementClass(look, isOperator) ==
  IF isOperator THEN tokenMap[look.cls].operatorClass
  ELSE tokenMap[look.cls].delimiterClass

\* the unravel at u: the look-ahead is off the stack when the replacement is
\* pushed, the replacement is pushed first and then the saved tokens, each
\* once and in the order they came, and in the end nothing is saved
UnravelsInOrder(u) ==
  LET look == pushes[u].items[1]
      saved == Tail(pushes[u].items)
      calls == UnravelCalls(u)
  IN /\ Len(calls) <= 1 + Len(saved)
     /\ \A n \in 1..Len(calls) :
          IF n = 1
          THEN /\ pushes[calls[1]].items[1].cls = ReplacementClass(look, pushes[u].flag)
               /\ pushes[calls[1]].size = pushes[u].size - 1
          ELSE pushes[calls[n]].items[1] = saved[n - 1]
     /\ UnravelEnd(u) # 0 =>
          (Len(calls) = 1 + Len(saved) /\ pushes[UnravelEnd(u)].items = <<>>)
     /\ status # "thrown" => UnravelEnd(u) # 0

\* the class is a look-ahead
IsLookAhead(cls) == Isa("LookAhead", [cls |-> cls])

\* the token of the last step met a look-ahead on top of the stack, which
\* took it without an unravel: the token was saved or has closed the angle
TookToken ==
  /\ status = "converting"
  /\ pushes # <<>>
  /\ pushes[1].flag
  /\ IsLookAhead(pushes[1].items[2].cls)
  /\ Unravels = {}
  /\ \E j \in EventsOf(1) :
       pushes[j].ev = "followedBy" /\ pushes[j].flag /\ pushes[j].items = <<>>

\* the look-ahead is still the top of a stack of the same height, and the
\* token is the last it has saved unless it has closed the angle
StaysOnTop ==
  LET top == stack.items[Len(stack.items)]
  IN /\ Len(stack.items) = pushes[1].size
     /\ top.cls = pushes[1].items[2].cls
     /\ \/ /\ top.saved # <<>>
           /\ ItemNames(<<top.saved[Len(top.saved)]>>)[1] = pushes[1].items[1]
        \/ (Isa("Angle", top) /\ top.isClosed)

LookAheadGroups ==
  {g \in 1..Len(pushes) : pushes[g].ev = "group" /\ IsLookAhead(pushes[g].items[2].cls)}

\* the look-ahead asked at g unravels as the operator it can be, with the
\* tokens it has saved
CommitsAsOperator(g) ==
  /\ g < Len(pushes)
  /\ pushes[g + 1].ev = "unravel"
  /\ pushes[g + 1].flag
  /\ pushes[g + 1].d = pushes[g].d
  /\ pushes[g + 1].size = pushes[g].size
  /\ pushes[g + 1].items[1] = pushes[g].items[2]
  /\ Len(pushes[g + 1].items) >= 2

\* after the unravel that ended at e, the same close token asks the item
\* that is now on top, which is what the replay has left there
ClosingContinues(g, e) ==
  /\ e < Len(pushes)
  /\ pushes[e + 1].ev = "group"
  /\ pushes[e + 1].d = pushes[g].d
  /\ pushes[e + 1].items[1] = pushes[g].items[1]
  /\ \E j \in (g + 1)..(e - 1) :
       /\ pushes[j].ev = "placed"
       /\ \A m \in (j + 1)..(e - 1) : pushes[m].ev # "placed"
       /\ pushes[j].items # <<>> =>
            pushes[e + 1].items[2] = pushes[j].items[Len(pushes[j].items)]
       /\ pushes[e + 1].size = pushes[j].size

\* C19: when a group close (a closing delimiter or the end marker) reaches an
\* unresolved look-ahead token: if its buffer is non-empty it commits as the
\* operator flavour, the buffered tokens are replayed, and closing then
\* continues against the new stack top; if its buffer is empty the parse
\* aborts with a "Missing operand after" error.
C19_GroupCloseOnLookAhead ==
  \A g \in LookAheadGroups :
    IF pushes[g].flag
    THEN /\ CommitsAsOperator(g)
         /\ UnravelsInOrder(g + 1)
         /\ UnravelEnd(g + 1) # 0 => ClosingContinues(g, UnravelEnd(g + 1))
         /\ UnravelEnd(g + 1) = 0 => status = "thrown"
    ELSE /\ status = "thrown"
         /\ error.message = "Missing operand after"
         /\ error.arg = pushes[g].items[2].value
         /\ g = Len(pushes)

\* C19 at work: the close of a group has reached a look-ahead with a saved
\* token, which has unravelled as an operator, and the group has closed
C19_Witness ==
  /\ status # "thrown"
  /\ \E g \in LookAheadGroups :
       /\ pushes[g].flag
       /\ pushes[g].items[1].cls # "End"
       /\ UnravelEnd(g + 1) # 0

\* the other case of C19: the close of a group has reached a look-ahead
\* that has saved nothing
EmptyLookAheadClosed ==
  \E g \in LookAheadGroups : ~pushes[g].flag /\ pushes[g].items[1].cls = "End"

\* the item can come before an operand: a delimiter, or an operator that can
\* precede an operand
CanComeBeforeOperand(item) ==
  Isa("Delimiter", item) \/ (Isa("Operator", item) /\ CanPrecedeOperand(item))

\* every angle on the stack can open a vector exactly when the item under it,
\* the one it came after, can come before an operand
OpenByWhatPrecedes ==
  \A k \in 2..Len(stack.items) :
    Isa("Angle", stack.items[k]) =>
      (stack.items[k].isOpen <=> CanComeBeforeOperand(stack.items[k - 1]))

\* the unravels of an angle in the last step of convert, and for the one at
\* u the token whose push has made the angle unravel
AngleUnravels == {u \in Unravels : Isa("Angle", pushes[u].items[1])}
UnravelCause(u) ==
  LET calls == {j \in 1..(u - 1) : pushes[j].ev = "push" /\ pushes[j].d = pushes[u].d}
  IN pushes[CHOOSE j \in calls : \A m \in calls : m <= j].items[1]

\* an angle becomes a delimiter when it can open a vector and an operator
\* when it cannot, whatever has come after it
ResolvedByWhatPrecedes ==
  \A u \in AngleUnravels : pushes[u].flag <=> ~pushes[u].items[1].isOpen

\* C20 as it is stated: an opening angle bracket < resolves as a
\* vector-opening delimiter when it is preceded by something that can precede
\* an operand (a delimiter or an operator that can precede an operand), and
\* otherwise, i.e. when it directly follows an operand, it resolves as a
\* relational operator, whatever tokens follow it (including a later >).
C20_AngleByWhatPrecedes ==
  /\ OpenByWhatPrecedes
  /\ ResolvedByWhatPrecedes

\* an angle that has met its > becomes an operator only when it cannot open
\* a vector, has seen a comma and the next token is an operand; an angle
\* that has not met a > becomes an operator, at the close of its group
ResolvedByWhatFollows ==
  \A u \in AngleUnravels :
    LET look == pushes[u].items[1]
    IN IF look.isClosed
       THEN pushes[u].flag <=>
              (Isa("Operand", UnravelCause(u)) /\ look.hasComma /\ ~look.isOpen)
       ELSE /\ pushes[u].flag
            /\ Isa("Delimiter", UnravelCause(u))
            /\ u - 1 \in LookAheadGroups

\* C20: an opening angle bracket < can open a vector exactly when it is
\* preceded by a delimiter or an operator that can precede an operand.  Once
\* a > has come for it, the next token resolves it: as a relational operator
\* when it cannot open a vector, a comma has come between < and > and that
\* next token is an operand, and as a vector-opening delimiter otherwise, so
\* also when it directly follows an operand.  When no > has come for it by
\* the close of its group, it resolves as a relational operator.
C20_AngleResolution ==
  /\ OpenByWhatPrecedes
  /\ ResolvedByWhatFollows

\* C20 at work: an angle that directly follows an operand has met its > and
\* has become the open delimiter of a vector, and the parse goes on
C20_Witness ==
  /\ status # "thrown"
  /\ \E u \in AngleUnravels :
       /\ ~pushes[u].flag
       /\ ~pushes[u].items[1].isOpen
       /\ pushes[u].items[1].isClosed
       /\ UnravelEnd(u) # 0

\* the calls of canCombine, in the last step of convert, of a new relation
\* on the open relation under it
RelationFusions ==
  {c \in 1..Len(pushes) :
     /\ pushes[c].ev = "canCombine"
     /\ Isa("Relation", pushes[c].items[1])
     /\ Isa("Relation", pushes[c].items[2])}

\* fusion is enabled for the family, and the chain is a bare equality or the
\* leading character of the new symbol is that of the type of the chain
FusionIsDue(this, prev) ==
  /\ tokenMap[this.cls].combine
  /\ tokenMap[prev.cls].combine
  /\ (prev.relType = <<"=">> \/ Head(this.value) = Head(prev.relType))

\* a new relation fuses exactly when fusion is due
FusesWhenDue ==
  \A c \in RelationFusions :
    pushes[c].flag <=> FusionIsDue(pushes[c].items[1], pushes[c].items[2])

\* a fusion appends the new symbol to the list of the chain, whose token
\* stays on the stack: no tree is pushed for it
FusionAppends ==
  \A c \in RelationFusions :
    pushes[c].flag =>
      /\ pushes[c].items[3].list = Append(pushes[c].items[2].list, pushes[c].items[1].value)
      /\ c < Len(pushes)
      /\ pushes[c + 1].ev = "follows"
      /\ pushes[c + 1].items = <<>>

\* without a fusion the list of the earlier relation is as it was, and the
\* tree of the earlier relation is pushed
NoFusionResolves ==
  \A c \in RelationFusions :
    ~pushes[c].flag =>
      /\ pushes[c].items[3] = pushes[c].items[2]
      /\ c < Len(pushes)
      /\ pushes[c + 1].ev = "push"
      /\ pushes[c + 1].items[1].cls = "Tree"

\* C21: a new relation fuses with the open relation immediately below it if
\* and only if fusion is enabled for the family and (the existing chain's
\* type is a bare equality, or the new symbol's leading character equals the
\* chain's type); fusion appends the new symbol to the chain's symbol list
\* and keeps the earlier relation token open, and in every other case (e.g.
\* an equality following an inequality chain, or following a relation whose
\* family disables fusion) the earlier relation is resolved as its own node
\* and no symbol is appended.
C21_RelationFusion ==
  /\ FusesWhenDue
  /\ FusionAppends
  /\ NoFusionResolves

\* the calls of checkFunction in the last step of convert: a token that has
\* function data has appended a child that has function data
Merges == {m \in 1..Len(pushes) : pushes[m].ev = "checkFunction"}

\* the two descriptors agree: the same flags, and the same count of arguments
\* unless one of the counts is unbounded
Compatible(a, b) ==
  /\ a.requireArgument = b.requireArgument
  /\ a.autoApply = b.autoApply
  /\ (a.args = b.args \/ a.args = Infinity \/ b.args = Infinity)

\* the count of the two that is bounded, when one is
BoundedCount(a, b) == IF a.args = Infinity THEN b.args ELSE a.args

\* C22: when a token that already holds a function-application descriptor
\* appends a child carrying a descriptor, the merge succeeds iff both
\* descriptors have identical explicit-argument-required and auto-apply flags
\* and their expected argument counts are equal or one of them is unbounded,
\* in which case the merged count is the bounded one; any other difference
\* aborts the parse with an incompatible-function-types error.
C22_DescriptorMerge ==
  \A m \in Merges :
    LET a == pushes[m].items[1]
        b == pushes[m].items[2]
    IN /\ pushes[m].flag <=> Compatible(a, b)
       /\ pushes[m].flag =>
            pushes[m].items[3] = [a EXCEPT !.args = BoundedCount(a, b)]
       /\ ~pushes[m].flag =>
            /\ status = "thrown"
            /\ error.message = "Functions are not compatible types for"
            /\ m = Len(pushes)
            /\ pushes[m].items[3] = a

\* C22 at work: a descriptor for any number of arguments has met one for a
\* bounded number and has taken that number
C22_Witness ==
  \E m \in Merges :
    /\ pushes[m].flag
    /\ pushes[m].items[1].args = Infinity
    /\ pushes[m].items[2].args # Infinity
    /\ pushes[m].items[3].args = pushes[m].items[2].args

\* the turns of the loop of Delimiter.follows, in the last step of convert,
\* that asked a delimiter which has taken a child that cannot be applied
RevokedGroups ==
  {g \in 1..Len(pushes) :
     /\ pushes[g].ev = "group"
     /\ Isa("Delimiter", pushes[g].items[2])
     /\ pushes[g].items[2].revoked}

\* what the delimiter asked at g has pushed: the calls of Stack.push before
\* the loop goes on or ends
PushedByGroup(g) ==
  {j \in (g + 1)..Len(pushes) :
     /\ pushes[j].ev = "push"
     /\ pushes[j].d = pushes[g].d + 1
     /\ \A m \in (g + 1)..(j - 1) : pushes[m].d > pushes[g].d}

\* no item on the stack that has taken a child that cannot be applied can
\* be applied or has function data
RevokedForGood ==
  \A k \in 1..Len(stack.items) :
    stack.items[k].revoked =>
      (~stack.items[k].canApply /\ stack.items[k].applyData = 0)

\* a delimiter that has taken a child that cannot be applied pushes no
\* ApplyPending when it is closed
NoPendingAfterMixed ==
  \A g \in RevokedGroups :
    \A j \in PushedByGroup(g) : pushes[j].items[1].cls # "ApplyPending"

\* C23: once a token has appended a child that is not a function, the
\* token's own apply-eligibility is revoked and its descriptor cleared, and
\* this is permanent: no child appended later (even one carrying a
\* descriptor) makes the token apply-eligible or gives it a descriptor again,
\* so a group whose content mixes a function with a non-function child is
\* never followed by a pending-application marker.
C23_RevokedForGood ==
  /\ RevokedForGood
  /\ NoPendingAfterMixed
  /\ \A a, b \in {<<"f">>, <<"x">>} : \A op \in {<<"+">>, <<",">>} :
       (/\ Returned
        /\ string = <<"(">> \o a \o op \o b \o <<")", "(", "y", ")">>
        /\ <<"x">> \in {a, b}) =>
         ast[1].kind \notin {"FuncExp", "FuncApply"}

\* C23 at work: an operator that has taken x and then the function f is on
\* the stack, and in another state the group (x+f) has been closed
C23_Witness ==
  /\ string = <<"(", "x", "+", "f", ")", "(", "y", ")">>
  /\ \E g \in RevokedGroups : PushedByGroup(g) # {}

\* a power node
IsPower(node) == node.kind = "Bop" /\ node.value = <<"^">>

\* the power node base^e, with the base a name
IsPowerOf(node, base, e) ==
  /\ IsPower(node)
  /\ Len(node.childNodes) = 2
  /\ IsNameNode(node.childNodes[1])
  /\ node.childNodes[1].value = base
  /\ ToString(node.childNodes[2]) = e

\* the function of the name has an inverse
IsInvertible(base) ==
  \E cls \in DOMAIN tokenMap :
    /\ Isa("Apply", [cls |-> cls])
    /\ base \in {tokenMap[cls].token[k] : k \in 1..Len(tokenMap[cls].token)}
    /\ tokenMap[cls].isInvertible

\* base^e with an argument has been converted
PowerConverted(base, e) ==
  /\ Returned
  /\ string \in {base \o <<"^">> \o e \o arg : arg \in {<<" ", "x">>, <<"(", "x", ")">>}}

\* C24: raising an invertible named function to the literal power -1
\* resolves to the function-name node renamed to the function's registered
\* inverse ("sin^-1" becomes the name asin, so "sin^-1 x" applies asin to x)
\* and no power node is built; for a non-invertible function, a non-function
\* base, or any exponent other than -1 an ordinary power node is built.
C24_InverseByPower ==
  /\ \A base \in PowerBases : \A e \in Exponents :
       PowerConverted(base, e) =>
         IF IsInvertible(base) /\ e = <<"-", "1">>
         THEN /\ ast[1].kind = "FuncApply"
              /\ ast[1].value = InvertAs(base)
              /\ Len(ast[1].childNodes) = 1
              /\ IsName(ast[1].childNodes[1], "x")
              /\ \A node \in Nodes(ast[1]) : ~IsPower(node)
         ELSE \E node \in Nodes(ast[1]) : IsPowerOf(node, base, e)
  /\ Returned =>
       \A node \in Nodes(ast[1]) :
         IsPower(node) =>
           ~(/\ node.childNodes[1].kind = "FuncName"
             /\ node.childNodes[1].inverse # <<>>
             /\ ToString(node.childNodes[2]) = <<"-", "1">>)

\* C24 at work: "sin^-1 x" is asin of x
C24_Witness ==
  /\ PowerConverted(<<"s", "i", "n">>, <<"-", "1">>)
  /\ ast[1].kind = "FuncApply"
  /\ ast[1].value = <<"a", "s", "i", "n">>

\* a comma operator node
IsCommaNode(node) == IsOpNode(node) /\ node.isComma

\* the node of a grouping delimiter
IsGroupNode(node) == node.kind \in (GroupKinds \ {"StackGroup"})

\* the children of the node are the names, in order
HasNames(node, names) ==
  /\ Len(node.childNodes) = Len(names)
  /\ \A k \in 1..Len(names) : IsName(node.childNodes[k], names[k])

\* the input has been converted
Converted(str) == Returned /\ string = str

\* C25: a comma list that is the direct content of a grouping delimiter is
\* flattened exactly one level: the delimiter's group node receives the
\* list's operands as its own children in order and no comma operator node
\* appears under it ("(a,b,c)" is a group with three children), whereas a
\* nested group inside the list stays a single child ("((a,b),c)" has two
\* children) and a comma list at the top level, outside any delimiter,
\* remains a comma operator node.
C25_CommaListFlattened ==
  /\ Returned =>
       \A node \in Nodes(ast[1]) :
         IsGroupNode(node) =>
           \A k \in 1..Len(node.childNodes) : ~IsCommaNode(node.childNodes[k])
  /\ \A open \in {<<"(">>, <<"{">>, <<"<">>} :
       \A str \in {open \o <<"a", ",", "b", ",", "c">> \o close :
                    close \in {<<")">>, <<"}">>, <<">">>}} :
         Converted(str) =>
           (IsGroupNode(ast[1]) /\ HasNames(ast[1], <<"a", "b", "c">>))
  /\ Converted(<<"(", "(", "a", ",", "b", ")", ",", "c", ")">>) =>
       /\ IsGroupNode(ast[1])
       /\ Len(ast[1].childNodes) = 2
       /\ IsGroupNode(ast[1].childNodes[1])
       /\ HasNames(ast[1].childNodes[1], <<"a", "b">>)
       /\ IsName(ast[1].childNodes[2], "c")
  /\ Converted(<<"(", "a", ",", "(", "b", ",", "c", ")", ")">>) =>
       /\ IsGroupNode(ast[1])
       /\ Len(ast[1].childNodes) = 2
       /\ IsName(ast[1].childNodes[1], "a")
       /\ IsGroupNode(ast[1].childNodes[2])
       /\ HasNames(ast[1].childNodes[2], <<"b", "c">>)
  /\ Converted(<<"a", ",", "b", ",", "c">>) =>
       (IsCommaNode(ast[1]) /\ HasNames(ast[1], <<"a", "b", "c">>))
  /\ Converted(<<"(", "a", ",", "b", ")", ",", "c">>) =>
       /\ IsCommaNode(ast[1])
       /\ Len(ast[1].childNodes) = 2
       /\ IsGroupNode(ast[1].childNodes[1])
       /\ HasNames(ast[1].childNodes[1], <<"a", "b">>)

\* C25 at work: "(a,b,c)" is a group of three children
C25_Witness ==
  /\ Converted(<<"(", "a", ",", "b", ",", "c", ")">>)
  /\ IsGroupNode(ast[1])
  /\ Len(ast[1].childNodes) = 3

\* the turns of the loop of Delimiter.follows in the last step of convert,
\* the turns that asked a delimiter, and the turn after a turn
GroupTurns == {g \in 1..Len(pushes) : pushes[g].ev = "group"}
DelimiterTurns == {g \in GroupTurns : Isa("Delimiter", pushes[g].items[2])}
LaterTurns(g) ==
  {h \in GroupTurns :
     h > g /\ pushes[h].d = pushes[g].d /\ pushes[h].items[1] = pushes[g].items[1]}

\* the delimiter asked at g takes the close delimiter that asks
Accepts(g) == IsClosedBy(pushes[g].items[2].cls, pushes[g].items[1].value)

\* a sentinel takes part in the turn: the Start item is asked, or the End
\* item asks
SentinelReached(g) ==
  Isa("Start", pushes[g].items[2]) \/ Isa("End", pushes[g].items[1])

\* C26 as it is stated: while a closing delimiter is being processed, an
\* open delimiter on the stack that does not list the closer among its
\* accepted closers is passed over and closing continues with deeper stack
\* items; an error (mismatched delimiters, extra close, or missing open) is
\* raised only when a sentinel is reached or the stack is exhausted without
\* a match.
C26_MismatchPassedOver ==
  \A g \in DelimiterTurns :
    (~Accepts(g) /\ ~SentinelReached(g)) => (status # "thrown" /\ LaterTurns(g) # {})

\* the message of the error of a delimiter that does not take the closer
MismatchMessage(g) ==
  IF Isa("Start", pushes[g].items[2]) THEN "Missing open delimiter for"
  ELSE IF Isa("End", pushes[g].items[1]) THEN "Missing close delimiter for"
  ELSE "Mismatched delimiters"

\* C26: while a closing delimiter is being processed, the items above the
\* nearest open delimiter are asked to close one after the other, and the
\* first open delimiter that is reached ends the closing: it closes its group
\* when it lists the closer among its accepted closers, and otherwise the
\* parse aborts there, with "Missing open delimiter" when it is the Start
\* marker, "Missing close delimiter" when the closer is the End marker and
\* "Mismatched delimiters" in every other case; no open delimiter is passed
\* over.
C26_FirstDelimiterDecides ==
  /\ \A g \in DelimiterTurns :
       /\ LaterTurns(g) = {}
       /\ ~Accepts(g) =>
            /\ status = "thrown"
            /\ error.message = MismatchMessage(g)
            /\ g = Len(pushes)
  /\ \A g \in GroupTurns \ DelimiterTurns :
       status # "thrown" => LaterTurns(g) # {}

\* C26 at work: the } of "{(x}" has met the ( and the parse has ended with
\* the mismatch
C26_Witness ==
  /\ string = <<"{", "(", "x", "}">>
  /\ status = "thrown"
  /\ error.message = "Mismatched delimiters"
  /\ \E g \in DelimiterTurns : ~Accepts(g) /\ ~SentinelReached(g)

\* the turns of the loop of Delimiter.follows, in the last step of convert,
\* in which an open delimiter other than the Start item met its closer
ClosedTurns ==
  {g \in DelimiterTurns : Accepts(g) /\ ~Isa("Start", pushes[g].items[2])}

\* what the delimiter closed at g has pushed, in order
PushedInOrder(g) == AscendingSeq(PushedByGroup(g))

\* the delimiter closed at g is popped, and its tree or its group is pushed
\* in its place
ReplacedByContent(g) ==
  LET made == PushedInOrder(g)
  IN /\ made # <<>>
     /\ pushes[made[1]].items[1].cls \in {"Tree", "Group"}
     /\ pushes[made[1]].size = pushes[g].size - 1

\* an ApplyPending is pushed after the content exactly when the delimiter
\* has function data, and nothing else is pushed
PendingWhenData(g) ==
  LET made == PushedInOrder(g)
  IN IF pushes[g].items[2].hasApplyData
     THEN /\ Len(made) = 2
          /\ pushes[made[2]].items[1].cls = "ApplyPending"
          /\ pushes[made[2]].items[1].hasApplyData
     ELSE Len(made) = 1

\* C27: when a closing delimiter matches its opener, the opener is popped
\* and replaced by its content (elided) or by a group, and a fresh
\* pending-application marker is pushed directly after it if and only if
\* the delimiter accrued a function-application descriptor from its content,
\* so that an argument group that follows attaches as that expression's
\* arguments ("(f)(x)" with f allowing bare reference applies f to x) while
\* a group without a descriptor followed by a parenthesized group is an
\* implicit product.
C27_PendingAfterClose ==
  /\ \A g \in ClosedTurns :
       status # "thrown" => (ReplacedByContent(g) /\ PendingWhenData(g))
  /\ Converted(<<"(", "f", ")", "(", "x", ")">>) =>
       /\ ast[1].kind = "FuncApply"
       /\ ast[1].value = <<"f">>
       /\ HasNames(ast[1], <<"x">>)
  /\ Converted(<<"(", "x", ")", "(", "y", ")">>) =>
       IsBinaryOfNames(ast[1], <<"*">>, "x", "y")
  /\ Converted(<<"(", "x", "+", "y", ")", "(", "z", ")">>) =>
       (IsBinary(ast[1], <<"*">>) /\ IsName(ast[1].childNodes[2], "z"))

\* C27 at work: the ) of "(f)" has closed the group of a function, and an
\* ApplyPending has been pushed after the function
C27_Witness ==
  /\ status = "converting"
  /\ \E g \in ClosedTurns :
       /\ pushes[g].items[2].hasApplyData
       /\ Len(PushedInOrder(g)) = 2

\* the turns of the loop of Delimiter.follows, in the last step of convert,
\* in which an open delimiter without children met its closer
EmptyTurns ==
  {g \in DelimiterTurns : Accepts(g) /\ pushes[g].items[2].children = 0}

\* the pair closed at g may be empty
MayBeEmpty(g) == tokenMap[pushes[g].items[2].cls].allowEmpty

\* the parse has been aborted for empty delimiters
EmptyDelimitersError ==
  /\ status = "thrown"
  /\ error.message = "Empty delimiters not allowed"

\* the empty pair closed at g has been closed with success: the Start item
\* stays for convert to pop, any other is replaced by a group without
\* children
ClosedEmpty(g) ==
  /\ status # "thrown"
  /\ \/ Isa("Start", pushes[g].items[2])
     \/ /\ ReplacedByContent(g)
        /\ pushes[PushedInOrder(g)[1]].items[1].cls = "Group"
        /\ pushes[PushedInOrder(g)[1]].items[1].children = 0

\* C28: closing a delimiter pair that disallows empty content with zero
\* children aborts the parse with an empty-delimiters error ("()" and
\* "f()"), while a pair that allows empty content (set braces "{}", and the
\* start/end markers) closes successfully with an empty child list.
C28_EmptyDelimiters ==
  /\ \A g \in EmptyTurns :
       IF MayBeEmpty(g) THEN ClosedEmpty(g) ELSE EmptyDelimitersError
  /\ EmptyDelimitersError => \E g \in EmptyTurns : ~MayBeEmpty(g)
  /\ (Ended /\ string \in {<<"(", ")">>, <<"f", "(", ")">>}) => EmptyDelimitersError
  /\ (Ended /\ string = <<"{", "}">>) =>
       /\ Returned
       /\ ast[1].kind = "Set"
       /\ ast[1].childNodes = <<>>
  /\ (Ended /\ string = <<>>) => (status = "returned" /\ ast = <<Undefined>>)

\* C28 at work: the ) of "f()" has met the ( of the argument list, which is
\* empty, and the parse has been aborted
C28_Witness ==
  /\ string = <<"f", "(", ")">>
  /\ EmptyDelimitersError
  /\ \E g \in EmptyTurns : pushes[g].items[2].cls = "Parens"

\* C28 at work: the } of "{}" has closed an empty set
C28_EmptySetClosed ==
  /\ string = <<"{", "}">>
  /\ \E g \in EmptyTurns : MayBeEmpty(g) /\ ~Isa("Start", pushes[g].items[2])

\* the Start item is the bottom of the stack, and no other item is one
StartAtBottom(items) ==
  /\ items # <<>>
  /\ items[1].cls = "Start"
  /\ \A k \in 2..Len(items) : items[k].cls # "Start"

\* the calls of Stack.push, in the last step of convert, that found no item
\* on the stack
PushesOnEmpty == {k \in 1..Len(pushes) : pushes[k].ev = "push" /\ ~pushes[k].flag}

\* the pop of convert, in the last step of convert
Pops == {k \in 1..Len(pushes) : pushes[k].ev = "pop"}

\* the only push on an empty stack is the push of the Start item, the first
\* of convert, and in every later step every call recorded has found an item
\* on the stack
NeverEmptyAfterStart ==
  /\ \A k \in PushesOnEmpty :
       /\ k = 1
       /\ pushes[k].items[1].cls = "Start"
       /\ i = 1
       /\ stack.items = <<NewToken("Start", NULL, "undef")>>
  /\ PushesOnEmpty = {} => \A k \in 1..Len(pushes) : pushes[k].size >= 1

\* convert pops the Start item from a stack that holds nothing else, as the
\* last thing the step does
StartAloneAtEnd ==
  /\ Pops = {Len(pushes)}
  /\ pushes[Len(pushes)].size = 1
  /\ pushes[Len(pushes)].items[1].cls = "Start"

\* C29: during every parse the synthetic Start marker is the bottom element
\* of the stack from the first push until convert pops it after the End
\* marker has been processed: no handler (operator reduction, group closing,
\* pending-application handling, look-ahead unravel) ever pops it, so the
\* stack is never empty when a token is pushed, the "Extra close delimiter"
\* branch of Delimiter.follows is never reached, and on success the stack
\* holds exactly the Start marker when End has been processed.
C29_StartStaysAtBottom ==
  /\ status = "converting" => StartAtBottom(stack.items)
  /\ (status = "thrown" /\ ~stack.isNull) => StartAtBottom(stack.items)
  /\ NeverEmptyAfterStart
  /\ error.message # "Extra close delimiter"
  /\ status = "returned" => StartAloneAtEnd
  /\ status # "returned" => Pops = {}

\* C29 at work: convert has returned the tree of "(x+y)(z)", after group
\* closings, an operator reduction and a pending application
C29_Witness ==
  /\ Converted(<<"(", "x", "+", "y", ")", "(", "z", ")">>)
  /\ StartAloneAtEnd
  /\ \E g \in GroupTurns : pushes[g].items[2].cls = "Start"

\* the tree is the application of the named function to the arguments
IsApplyOf(node, name, n) ==
  /\ node.kind = "FuncApply"
  /\ node.value = name
  /\ Len(node.childNodes) = n

\* the tree of the item is a function with its arguments, bare or as the
\* only content of a group
IsApplied(item) ==
  \/ item.ast.kind = "FuncApply"
  \/ /\ item.cls = "Group"
     /\ Len(item.ast.childNodes) = 1
     /\ item.ast.childNodes[1].kind = "FuncApply"

\* the items of the stack that are an ApplyPending that, unless an argument
\* follows, will end the parse with an error
Demanding(items) ==
  {k \in 2..Len(items) :
     /\ items[k].cls = "ApplyPending"
     /\ items[k].applyData # 0
     /\ heap[items[k].applyData].requireArgument}

\* C30: a completed function application can itself be enclosed in a
\* delimiter or used as an explicit argument: for functions that require an
\* argument (the auto-apply trig functions), "(cos(x))" parses to the
\* application cos(x) and "sin(cos(x))" parses to FuncApply sin whose single
\* argument is FuncApply cos with argument x; closing a delimiter around an
\* already-applied function never leaves a pending-application marker that
\* demands a further argument.
C30_AppliedFunctionEnclosed ==
  /\ (Ended /\ string = <<"(", "c", "o", "s", "(", "x", ")", ")">>) =>
       /\ Returned
       /\ IsApplyOf(ast[1], <<"c", "o", "s">>, 1)
       /\ HasNames(ast[1], <<"x">>)
  /\ (Ended /\ string = <<"s", "i", "n", "(", "c", "o", "s", "(", "x", ")", ")">>) =>
       /\ Returned
       /\ IsApplyOf(ast[1], <<"s", "i", "n">>, 1)
       /\ IsApplyOf(ast[1].childNodes[1], <<"c", "o", "s">>, 1)
       /\ HasNames(ast[1].childNodes[1], <<"x">>)
  /\ status = "converting" =>
       \A k \in Demanding(stack.items) : ~IsApplied(stack.items[k - 1])

\* a function that requires no argument is enclosed, with its arguments, in
\* a delimiter or used as an argument
EnclosedWithoutDemand ==
  /\ Converted(<<"(", "f", "(", "x", ")", ")">>) =>
       (IsApplyOf(ast[1], <<"f">>, 1) /\ HasNames(ast[1], <<"x">>))
  /\ Converted(<<"f", "(", "f", "(", "x", ")", ")">>) =>
       /\ IsApplyOf(ast[1], <<"f">>, 1)
       /\ IsApplyOf(ast[1].childNodes[1], <<"f">>, 1)
  /\ (Ended /\ string \in {<<"(", "f", "(", "x", ")", ")">>,
                            <<"f", "(", "f", "(", "x", ")", ")">>,
                            <<"(", "s", "i", "n", " ", "x", ")">>,
                            <<"s", "i", "n", "(", "f", "(", "x", ")", ")">>}) => Returned

====
